---------------------------- MODULE Spec2Model ----------------------------
(***************************************************************************)
(* A model of the bitcoin block builder: transaction validation, the       *)
(* invalid-set sweep, and block assembly (parent linking, packet weights,  *)
(* sorting, cutting).                                                      *)
(*                                                                         *)
(* Data conventions.                                                       *)
(*  - A Rust String / Vec<u8> is a sequence of naturals; the empty String  *)
(*    (an unset meta.txid_hex) is << >>.                                   *)
(*  - A u64 is its to_le_bytes(): 8 bytes, least significant first, so     *)
(*    that the 64-bit width is kept.  weight values are integers: the      *)
(*    code computes them in u32 and rejects anything above 3,999,280.      *)
(*  - sha256 / ripemd160 are injective taggings of their pre-image (the    *)
(*    collision-free reading of a hash).                                   *)
(*  - secp256k1 is an oracle on the bytes it is given: a signature is      *)
(*    <<d, k>> where d = 48 (0x30) iff it parses as DER and k names the    *)
(*    key whose signature over the SIGHASH_ALL message it is (0: none); a  *)
(*    public key is <<p, k>> where p \in {2, 3} iff it parses.             *)
(*  - Arithmetic overflow of `+=` panics in a build with overflow checks   *)
(*    and wraps in one without; the build is chosen in Init.               *)
(***************************************************************************)
EXTENDS Integers, Sequences, FiniteSets, TLC

VARIABLES
    build,                \* "debug" (overflow checks) or "release" (wrapping)
    pc,                   \* where main() is
    parsed_transactions,  \* main: the Vec<Transaction> the loader returned
    vi,                   \* validate_transactions: index of the record in work
    vstep,                \* Transaction::validate: the check to run next
    judged,               \* history: what validate returned for each record
    values_ret,           \* history: what validate_values_and_set_fee returned
    invalid_transactions, \* the HashSet<String> of invalid txids
    transactions,         \* the HashMap of remove_invalid_transactions, later
                          \* main's valid_transactions
    nothing_removed,      \* remove_invalid_transactions: the loop flag
    sorted_transactions,  \* sort_transactions: the Vec being ordered
    block_ordered,        \* mine_block: what cut_size returned
    coinbase_tx,          \* mine_block: the CoinbaseTxData
    block_header,         \* construct_header / mine_nonce: the header bytes
    nonce,                \* mine_nonce: the loop variable
    block_hashes,         \* history: each candidate mine_nonce hashed and
                          \* the digest it saw
    block,                \* main: the Block mine_block returned
    output_file           \* output_block: what was written, call by call

vars == <<build, pc, parsed_transactions, vi, vstep, judged, values_ret,
          invalid_transactions, transactions, nothing_removed,
          sorted_transactions, block_ordered, coinbase_tx, block_header,
          nonce, block_hashes, block, output_file>>

---------------------------------------------------------------------------
(* Bounds of the model *)

MaxInputs == 2
MaxOutputs == 2

---------------------------------------------------------------------------
(* Sequences *)

Reverse(s) == [i \in 1..Len(s) |-> s[Len(s) + 1 - i]]

RECURSIVE Flatten(_)
Flatten(ss) == IF ss = << >> THEN << >> ELSE Head(ss) \o Flatten(Tail(ss))

SeqsUpTo(S, n) == UNION {[1..k -> S] : k \in 0..n}

Range(s) == {s[i] : i \in DOMAIN s}

---------------------------------------------------------------------------
(* u64 arithmetic on little-endian bytes *)

RECURSIVE to_le_bytes(_, _)
to_le_bytes(n, k) ==
    IF k = 0 THEN << >> ELSE <<n % 256>> \o to_le_bytes(n \div 256, k - 1)

U64(n) == to_le_bytes(n, 8)

Zeros(k) == [i \in 1..k |-> 0]

\* a + b on equal-length byte strings; the last element of the result is the
\* carry out of the top byte.
RECURSIVE AddFrom(_, _, _, _)
AddFrom(a, b, i, carry) ==
    IF i > Len(a) THEN <<carry>>
    ELSE LET s == a[i] + b[i] + carry
         IN  <<s % 256>> \o AddFrom(a, b, i + 1, s \div 256)

AddCarry(a, b) == AddFrom(a, b, 1, 0)

Overflows(a, b) == AddCarry(a, b)[Len(a) + 1] = 1

WrappingAdd(a, b) == SubSeq(AddCarry(a, b), 1, Len(a))

RECURSIVE LtFrom(_, _, _)
LtFrom(a, b, i) ==
    IF i = 0 THEN FALSE
    ELSE IF a[i] # b[i] THEN a[i] < b[i]
    ELSE LtFrom(a, b, i - 1)

\* a < b on equal-length little-endian byte strings
Lt(a, b) == LtFrom(a, b, Len(a))

\* a - b for a >= b
RECURSIVE SubFrom(_, _, _, _)
SubFrom(a, b, i, borrow) ==
    IF i > Len(a) THEN << >>
    ELSE LET d == a[i] - b[i] - borrow
         IN  <<(d + 256) % 256>> \o SubFrom(a, b, i + 1, IF d < 0 THEN 1 ELSE 0)

Sub(a, b) == SubFrom(a, b, 1, 0)

\* a * m for a small multiplier m, wrapping at the width of a
RECURSIVE MulFrom(_, _, _, _)
MulFrom(a, m, i, carry) ==
    IF i > Len(a) THEN << >>
    ELSE LET p == a[i] * m + carry
         IN  <<p % 256>> \o MulFrom(a, m, i + 1, p \div 256)

MulSmall(a, m) == MulFrom(a, m, 1, 0)

\* floor(a / d) for a divisor 0 < d < 2^22, by long division from the top byte
RECURSIVE DivFrom(_, _, _, _)
DivFrom(a, d, i, rem) ==
    IF i = 0 THEN << >>
    ELSE LET cur == rem * 256 + a[i]
         IN  DivFrom(a, d, i - 1, cur % d) \o <<cur \div d>>

DivSmall(a, d) == DivFrom(a, d, Len(a), 0)

\* the mathematical sum of a list of u64 values, on 10 bytes (no wrap below
\* 65536 summands)
Widen(a) == a \o Zeros(10 - Len(a))

RECURSIVE TrueSum(_)
TrueSum(vals) ==
    IF vals = << >> THEN Zeros(10)
    ELSE SubSeq(AddCarry(Widen(Head(vals)), TrueSum(Tail(vals))), 1, 10)

---------------------------------------------------------------------------
(* Option, hex, hashes, varint *)

None == [some |-> FALSE, v |-> << >>]
Some(x) == [some |-> TRUE, v |-> x]

\* hex::encode: two hex digits (0..15) per byte
hex_encode(bytes) ==
    [i \in 1..(2 * Len(bytes)) |->
        IF i % 2 = 1 THEN bytes[(i + 1) \div 2] \div 16 ELSE bytes[i \div 2] % 16]

\* hex::decode of a well-formed (even-length) hex string
hex_decode(hex) ==
    [i \in 1..(Len(hex) \div 2) |-> hex[2 * i - 1] * 16 + hex[2 * i]]

hash_sha256(preimage) == <<83>> \o preimage

ripemd160(preimage) == <<82>> \o preimage

double_hash(preimage) == hash_sha256(hash_sha256(preimage))

hash160(preimage) == ripemd160(hash_sha256(preimage))

varint(n) ==
    IF n <= 252 THEN <<n>>
    ELSE IF n <= 65535 THEN <<253>> \o to_le_bytes(n, 2)
    ELSE <<254>> \o to_le_bytes(n, 4)

---------------------------------------------------------------------------
(* Transaction records                                                     *)
(*   TxOut: value (u64 bytes), scriptpubkey as a run [len, fill]: len      *)
(*          bytes all equal to fill (len = 0: absent), so that a script of *)
(*          a million bytes is a value of the model.                       *)
(*   TxIn:  txid (hex string), scriptsig (bytes, << >>: absent), prevout   *)
(*          [scriptpubkey bytes, scriptpubkey_type, value], witness        *)
(*          (Option of a list of byte strings), in_type, sequence (u32 as  *)
(*          4 little-endian bytes).  vout is 0 throughout.                 *)
(***************************************************************************)

ValidResult == [kind |-> "Valid", reason |-> ""]
Invalid(reason) == [kind |-> "Invalid", reason |-> reason]
Panic(reason) == [kind |-> "Panic", reason |-> reason]
NoResult == [kind |-> "None", reason |-> ""]

DefaultMeta ==
    [json_path |-> << >>, txid_hex |-> << >>, wtxid_hex |-> << >>,
     weight |-> 0, fee |-> U64(0), parents |-> None,
     packet_data |-> [packet_weight |-> 0, packet_fee_sat |-> U64(0),
                      packet_feerate_weight |-> U64(0)]]

UnknownType(s) == <<"UNKNOWN", s>>

\* InputType::fetch_type: the classified type of a prevout's type string
fetch_type(type_string) ==
    CASE type_string = "v1_p2tr" -> <<"P2TR">>
      [] type_string = "v0_p2wpkh" -> <<"P2WPKH">>
      [] type_string = "v0_p2wsh" -> <<"P2WSH">>
      [] type_string = "p2sh" -> <<"P2SH">>
      [] type_string = "p2pkh" -> <<"P2PKH">>
      [] OTHER -> UnknownType(type_string)

\* get_outpoint: reversed txid bytes, then vout (0) as 4 little-endian bytes
get_outpoint(input) == Reverse(hex_decode(input.txid)) \o to_le_bytes(0, 4)

serialize_input(input) ==
    get_outpoint(input) \o varint(Len(input.scriptsig)) \o input.scriptsig
        \o input.sequence

\* the bytes of a run-length scriptpubkey, as they enter a pre-image
RunBytes(spk) == IF spk.len = 0 THEN << >> ELSE <<spk.fill>>

serialize_output(output) ==
    output.value \o varint(output.scriptpubkey.len) \o RunBytes(output.scriptpubkey)

\* the length of serialize_output(output) in the program
serialize_output_len(output) ==
    8 + Len(varint(output.scriptpubkey.len)) + output.scriptpubkey.len

RECURSIVE serialize_witnesses_with_amount(_)
serialize_witnesses_with_amount(vin) ==
    IF vin = << >> THEN << >>
    ELSE (IF Head(vin).witness.some
          THEN varint(Len(Head(vin).witness.v))
                 \o Flatten([i \in DOMAIN Head(vin).witness.v |->
                        varint(Len(Head(vin).witness.v[i])) \o Head(vin).witness.v[i]])
          ELSE <<0>>)
         \o serialize_witnesses_with_amount(Tail(vin))

is_segwit_first_input(t) == t.vin # << >> /\ t.vin[1].witness.some

is_segwit(t) == \E i \in DOMAIN t.vin : t.vin[i].witness.some

assemble_txid_preimage(t, witness) ==
    to_le_bytes(t.version, 4)
      \o (IF witness THEN <<0, 1>> ELSE << >>)
      \o varint(Len(t.vin))
      \o Flatten([i \in DOMAIN t.vin |-> serialize_input(t.vin[i])])
      \o varint(Len(t.vout))
      \o Flatten([i \in DOMAIN t.vout |-> serialize_output(t.vout[i])])
      \o (IF witness THEN serialize_witnesses_with_amount(t.vin) ELSE << >>)
      \o to_le_bytes(t.locktime, 4)

get_txid(preimage) == Reverse(double_hash(preimage))

\* hash_txid: hex of the third hash, the expected file stem
hash_txid(txid) == hex_encode(hash_sha256(txid))

\* the txid a record gets (meta.txid_hex once validate_txid_hash_filename ran)
TxidHex(t) == hex_encode(get_txid(assemble_txid_preimage(t, FALSE)))

---------------------------------------------------------------------------
(* validate_values.rs *)

MaxMoney == MulSmall(MulSmall(U64(20999999), 10000), 10000)

\* a u64 running sum built with `+=`: [panic, v]
RECURSIVE SumValues(_, _, _, _)
SumValues(vals, i, acc, b) ==
    IF i > Len(vals) THEN [panic |-> FALSE, v |-> acc]
    ELSE IF Overflows(acc, vals[i]) /\ b = "debug"
         THEN [panic |-> TRUE, v |-> acc]
         ELSE SumValues(vals, i + 1, WrappingAdd(acc, vals[i]), b)

InputValues(t) == [i \in DOMAIN t.vin |-> t.vin[i].prevout.value]
OutputValues(t) == [i \in DOMAIN t.vout |-> t.vout[i].value]

\* validate_values_and_set_fee: [ret, tx], ret "true", "false" or "panic"
validate_values_and_set_fee(t, b) ==
    IF t.vin = << >> \/ t.vout = << >> THEN [ret |-> "false", tx |-> t]
    ELSE LET input_sum == SumValues(InputValues(t), 1, U64(0), b)
             output_sum == SumValues(OutputValues(t), 1, U64(0), b)
         IN  IF input_sum.panic \/ output_sum.panic
             THEN [ret |-> "panic", tx |-> t]
             ELSE IF Lt(input_sum.v, output_sum.v)
             THEN [ret |-> "false", tx |-> t]
             ELSE IF Lt(MaxMoney, input_sum.v) \/ Lt(MaxMoney, output_sum.v)
             THEN [ret |-> "false", tx |-> t]
             ELSE [ret |-> "true",
                   tx |-> [t EXCEPT !.meta.fee = Sub(input_sum.v, output_sum.v)]]

\* validate_feerate: fee / (weight / 4) >= 1
validate_feerate(t) ==
    LET vbyte_size == t.meta.weight \div 4
        feerate == DivSmall(t.meta.fee, vbyte_size)
    IN  ~ Lt(feerate, U64(1))

---------------------------------------------------------------------------
(* weight_calculation.rs *)

input_weight_sum(t) ==
    Len(varint(Len(t.vin)))
      + Len(Flatten([i \in DOMAIN t.vin |-> serialize_input(t.vin[i])]))

RECURSIVE SumLens(_)
SumLens(lens) == IF lens = << >> THEN 0 ELSE Head(lens) + SumLens(Tail(lens))

output_weight_sum(t) ==
    Len(varint(Len(t.vout)))
      + SumLens([i \in DOMAIN t.vout |-> serialize_output_len(t.vout[i])])

witness_weight_sum(t) ==
    SumLens([i \in DOMAIN t.vin |->
                IF t.vin[i].witness.some
                THEN Len(Flatten(t.vin[i].witness.v)) ELSE 0])

calculate_weight(t) ==
    4 * 4
      + (IF is_segwit(t) THEN 2 + witness_weight_sum(t) ELSE 0)
      + input_weight_sum(t) * 4
      + output_weight_sum(t) * 4
      + 4 * 4

MaxTxWeight == 4000000 - (400 + 320)

\* validate_and_set_weight: [ret, tx]
validate_and_set_weight(t) ==
    LET weight == calculate_weight(t)
    IN  IF weight > MaxTxWeight THEN [ret |-> FALSE, tx |-> t]
        ELSE [ret |-> TRUE, tx |-> [t EXCEPT !.meta.weight = weight]]

---------------------------------------------------------------------------
(* validate_parsing.rs *)

\* validate_txid_hash_filename: [ret, tx]; txid and wtxid are stored whatever
\* the comparison with the file stem gives
validate_txid_hash_filename(t) ==
    LET txid_bytes == get_txid(assemble_txid_preimage(t, FALSE))
        wtxid_bytes == IF is_segwit(t)
                       THEN get_txid(assemble_txid_preimage(t, TRUE))
                       ELSE txid_bytes
        t2 == [t EXCEPT !.meta.txid_hex = hex_encode(txid_bytes),
                        !.meta.wtxid_hex = hex_encode(wtxid_bytes)]
    IN  [ret |-> (t.meta.json_path = hash_txid(txid_bytes)), tx |-> t2]

---------------------------------------------------------------------------
(* secp256k1, as an oracle on the bytes *)

\* Signature::from_der succeeds
from_der_ok(sig) == Len(sig) = 2 /\ sig[1] = 48

\* PublicKey::from_slice succeeds
from_slice_ok(pubkey) == Len(pubkey) = 2 /\ pubkey[1] \in {2, 3}

\* sig.verify(msg, pubkey) succeeds, msg being the input's SIGHASH_ALL digest
verify_ok(sig, pubkey) == sig[2] # 0 /\ sig[2] = pubkey[2]

---------------------------------------------------------------------------
(* validation/script.rs *)

Ok(stack, index) == [kind |-> "Ok", stack |-> stack, index |-> index, msg |-> ""]
Err(msg) == [kind |-> "Err", stack |-> << >>, index |-> 0, msg |-> msg]
Abort(msg) == [kind |-> "Panic", stack |-> << >>, index |-> 0, msg |-> msg]

Top(stack) == stack[Len(stack)]
Pop(stack, n) == SubSeq(stack, 1, Len(stack) - n)
Push(stack, item) == Append(stack, item)

\* verify_sig_op_checksig: "Ok", "Err" or "Panic" (expect on the public key)
verify_sig_op_checksig(pubkey, sig) ==
    IF ~ from_der_ok(sig) THEN "Err"
    ELSE IF ~ from_slice_ok(pubkey) THEN "Panic"
    ELSE IF verify_ok(sig, pubkey) THEN "Ok" ELSE "Err"

op_checksig(stack, index, txin) ==
    IF Len(stack) < 2 THEN Err("OP_CHECKSIG stack < 2")
    ELSE LET pubkey == Top(stack)
             signature == stack[Len(stack) - 1]
             rest == Pop(stack, 2)
         IN  IF signature = << >>
             THEN Err("OP_CHECKSIG popping sighash from signature failed")
             ELSE LET sighash == signature[Len(signature)]
                      der_signature == SubSeq(signature, 1, Len(signature) - 1)
                  IN  IF sighash # 1 THEN Err("sighash not implemented")
                      ELSE IF txin.in_type \notin {<<"P2PKH">>, <<"P2SH">>}
                      THEN Abort("op_checksig unsupported txtype")
                      ELSE LET v == verify_sig_op_checksig(pubkey, der_signature)
                           IN  IF v = "Panic" THEN Abort("Pubkey invalid!")
                               ELSE IF v = "Ok" THEN Ok(Push(rest, <<1>>), index)
                               ELSE Ok(Push(rest, << >>), index)

op_verify(stack, index) ==
    IF stack = << >> THEN Err("OP_VERIFY popping top stack element failed")
    ELSE IF Top(stack) = << >> THEN Err("OP_VERIFY not valid")
    ELSE Ok(Pop(stack, 1), index)

op_equal(stack, index) ==
    IF Len(stack) < 2 THEN Err("OP_EQUAL stack len < 2")
    ELSE IF Top(stack) = stack[Len(stack) - 1]
         THEN Ok(Push(Pop(stack, 2), <<1>>), index)
         ELSE Ok(Push(Pop(stack, 2), << >>), index)

op_equalverify(stack, index) ==
    LET e == op_equal(stack, index)
    IN  IF e.kind # "Ok" THEN e
        ELSE IF Top(e.stack) = << >> THEN Err("Equalverify false")
        ELSE Ok(Pop(e.stack, 1), index)

op_swap(stack, index) ==
    IF Len(stack) < 2 THEN Err("OP_SWAP stack < 2")
    ELSE Ok(Pop(stack, 2) \o <<Top(stack), stack[Len(stack) - 1]>>, index)

op_rot(stack, index) ==
    IF Len(stack) < 3 THEN Err("OP_ROT stack len < 3")
    ELSE LET third_item == stack[Len(stack)]
             second_item == stack[Len(stack) - 1]
             first_item == stack[Len(stack) - 2]
         IN  Ok(Pop(stack, 3) \o <<second_item, first_item, third_item>>, index)

op_size(stack, index) ==
    IF stack = << >> THEN Err("OP_SIZE stack empty")
    ELSE Ok(Push(stack, to_le_bytes(Len(Top(stack)), 8)), index)

op_over(stack, index) ==
    IF Len(stack) < 2 THEN Err("OP_OVER stack < 2")
    ELSE Ok(Push(stack, stack[Len(stack) - 1]), index)

op_ifdup(stack, index) ==
    IF stack = << >> THEN Err("OP_IFDUP length < 1")
    ELSE IF Top(stack) = << >> THEN Ok(stack, index)
    ELSE Ok(Push(stack, Top(stack)), index)

op_depth(stack, index) == Ok(Push(stack, varint(Len(stack))), index)

\* validation/utils.rs decode_num: BigInt::from_signed_bytes_le reads the
\* bytes as a little-endian two's complement number; the i128 is its 16
\* little-endian bytes, and to_i128 fails (expect panics) when the number
\* needs more
decode_num(number) ==
    LET n == Len(number)
        fill == IF n > 0 /\ number[n] >= 128 THEN 255 ELSE 0
        fits == \/ n <= 16
                \/ /\ \A k \in 17..n : number[k] = fill
                   /\ (number[16] >= 128) <=> (fill = 255)
    IN  IF fits
        THEN [panic |-> FALSE,
              value |-> [k \in 1..16 |-> IF k <= n THEN number[k] ELSE fill]]
        ELSE [panic |-> TRUE, value |-> << >>]

\* number < 0 on an i128
is_negative(value) == value[16] >= 128

\* `number as u32`: the low four bytes
as_u32(value) == SubSeq(value, 1, 4)

\* u32 & (1 << 31), u32 & (1 << 22) and u32 & 0x0000ffff
disable_flag(u) == u[4] >= 128
time_flag(u) == (u[3] \div 64) % 2 = 1
locktime_mask(u) == u[1] + 256 * u[2]

op_checksequenceverify(stack, index, txin, tx) ==
    IF stack = << >> THEN Err("OP_CSV stack empty")
    ELSE LET locktime_element == Top(stack)
             decoded == decode_num(locktime_element)
         IN  IF decoded.panic THEN Abort("number outside of i128 scope")
             ELSE IF is_negative(decoded.value) \/ locktime_element = << >>
             THEN Err("OP_CSV number < 0 or empty")
             ELSE LET number == as_u32(decoded.value)
                  IN  IF disable_flag(number) THEN Ok(Pop(stack, 1), index)
                      ELSE IF tx.version < 2
                      THEN Err("OP_CSV Transaction version is less than 2.")
                      ELSE IF disable_flag(txin.sequence)
                      THEN Err("OP_CSV Transaction input sequence number disable flag is set.")
                      ELSE IF time_flag(number) # time_flag(txin.sequence)
                      THEN Err("OP_CSV Relative lock-time types are not the same.")
                      ELSE IF locktime_mask(number) > locktime_mask(txin.sequence)
                      THEN Err("OP_CSV Stack > Sequence LT")
                      ELSE Ok(Pop(stack, 1), index)

LocktimeThreshold == 500000000

op_checklocktimeverify(stack, index, tx, txin) ==
    IF stack = << >> THEN Err("OP_CLTV stack empty")
    ELSE LET top_item == Top(stack)
             decoded == decode_num(top_item)
         IN  IF decoded.panic THEN Abort("number outside of i128 scope")
             ELSE IF is_negative(decoded.value) THEN Err("OP_CLTV number < 0")
             ELSE LET decoded_number == as_u32(decoded.value)
                      locktime == to_le_bytes(tx.locktime, 4)
                      threshold == to_le_bytes(LocktimeThreshold, 4)
                  IN  IF \/ Lt(decoded_number, threshold) /\ Lt(threshold, locktime)
                         \/ Lt(threshold, decoded_number) /\ Lt(locktime, threshold)
                      THEN Err("OP_CLTV different locktime types")
                      ELSE IF Lt(locktime, decoded_number)
                      THEN Err("OP_CLTV locktime < stack num.")
                      ELSE IF txin.sequence = <<255, 255, 255, 255>>
                      THEN Err("OP_CLTV in sequence is 0xffffffff")
                      ELSE Ok(Pop(stack, 1), index)

op_pushnum(stack, index, amount) == Ok(Push(stack, <<amount - 80>>), index)

\* the slice script[index + 1 .. index + 1 + opcode] panics when it ends past
\* the script
op_pushbytes(stack, index, script) ==
    LET opcode == script[index + 1]
    IN  IF index + opcode <= Len(script)
        THEN IF index + 1 + opcode > Len(script)
             THEN Abort("range end index out of range for slice")
             ELSE Ok(Push(stack, SubSeq(script, index + 2, index + 1 + opcode)),
                     index + opcode)
        ELSE Err("OP_PUSHBYTES opcode out of range")

\* the opcodes this development executes; scripts are drawn without the others
\* (OP_GREATERTHAN, OP_PUSHDATA1/2/4, OP_CHECKMULTISIG)
Modelled(opcode) == opcode \notin {160, 76, 77, 78, 174}

step(opcode, script, index, stack, txin, tx) ==
    CASE opcode = 168 ->
           IF stack = << >> THEN Err("OP_SHA256 stack empty")
           ELSE Ok(Push(Pop(stack, 1), hash_sha256(Top(stack))), index)
      [] opcode = 169 ->
           IF stack = << >> THEN Err("OP_HASH160 stack empty")
           ELSE Ok(Push(Pop(stack, 1), hash160(Top(stack))), index)
      [] opcode = 117 ->
           IF stack = << >> THEN Err("OP_DROP stack empty")
           ELSE Ok(Pop(stack, 1), index)
      [] opcode = 124 -> op_swap(stack, index)
      [] opcode = 0 -> Ok(Push(stack, << >>), index)
      [] opcode = 118 ->
           IF stack = << >> THEN Err("OP_DUP stack empty.")
           ELSE Ok(Push(stack, Top(stack)), index)
      [] opcode = 135 -> op_equal(stack, index)
      [] opcode = 123 -> op_rot(stack, index)
      [] opcode = 130 -> op_size(stack, index)
      [] opcode = 120 -> op_over(stack, index)
      [] opcode = 136 -> op_equalverify(stack, index)
      [] opcode = 115 -> op_ifdup(stack, index)
      [] opcode = 178 -> op_checksequenceverify(stack, index, txin, tx)
      [] opcode = 177 -> op_checklocktimeverify(stack, index, tx, txin)
      [] opcode = 172 -> op_checksig(stack, index, txin)
      [] opcode = 116 -> op_depth(stack, index)
      [] opcode = 173 ->
           LET c == op_checksig(stack, index, txin)
           IN  IF c.kind # "Ok" THEN c ELSE op_verify(c.stack, index)
      [] opcode \in 81..96 -> op_pushnum(stack, index, opcode)
      [] opcode = 79 -> Ok(Push(stack, <<255>>), index)
      [] opcode \in 1..75 -> op_pushbytes(stack, index, script)
      [] ~ Modelled(opcode) -> [kind |-> "Unmodelled", stack |-> stack,
                                index |-> index, msg |-> ""]
      [] OTHER -> Abort("no script operator found!")

RECURSIVE run_script(_, _, _, _, _)
run_script(script, index, stack, txin, tx) ==
    IF index < Len(script)
    THEN LET r == step(script[index + 1], script, index, stack, txin, tx)
         IN  IF r.kind # "Ok" THEN r
             ELSE run_script(script, r.index + 1, r.stack, txin, tx)
    ELSE IF stack # << >> /\ Top(stack) = << >> THEN Err("SCRIPT INVALID")
    ELSE Ok(stack, index)

\* evaluate_script: kind "Ok", "Err" or "Panic"
evaluate_script(script, txin, tx) == run_script(script, 0, << >>, txin, tx)

---------------------------------------------------------------------------
(* validation/signature_verification.rs *)

\* verify_signature_p2wpkh: the sighash byte is cut off unread
verify_signature_p2wpkh(pubkey, sig) ==
    IF sig = << >> THEN Panic("attempt to subtract with overflow")
    ELSE LET der == SubSeq(sig, 1, Len(sig) - 1)
         IN  IF ~ from_der_ok(der)
             THEN Invalid("Loading DER encoded signature failed")
             ELSE IF ~ from_slice_ok(pubkey) THEN Panic("Pubkey invalid!")
             ELSE IF verify_ok(der, pubkey) THEN ValidResult
             ELSE Invalid("Signature verification failed")

\* get_segwit_commitment_hash runs first and panics on a scriptpubkey shorter
\* than its 2-byte prefix and on an output without scriptpubkey
commitment_panics(t, txin) ==
    \/ Len(txin.prevout.scriptpubkey) < 2
    \/ \E i \in DOMAIN t.vout : t.vout[i].scriptpubkey.len = 0

verify_p2wpkh(t, txin) ==
    IF commitment_panics(t, txin) THEN Panic("No scriptpubkey in output!")
    ELSE IF txin.witness.some
    THEN IF Len(txin.witness.v) < 2 THEN Panic("index out of bounds")
         ELSE LET witness_sig == txin.witness.v[1]
                  witness_pk == txin.witness.v[2]
                  witness_pubkey_20bit == hash160(witness_pk)
                  scriptpubkey_pubkey ==
                      SubSeq(txin.prevout.scriptpubkey, 3,
                             Len(txin.prevout.scriptpubkey))
              IN  IF witness_pubkey_20bit = scriptpubkey_pubkey
                  THEN verify_signature_p2wpkh(witness_pk, witness_sig)
                  ELSE Invalid("Pubkeys unequal")
    ELSE Invalid("No witness in transaction!")

verify_p2pkh_panic_invalid(t, txin) ==
    IF txin.scriptsig = << >> THEN Panic("p2pkh scriptsig empty")
    ELSE LET r == evaluate_script(txin.scriptsig \o txin.prevout.scriptpubkey, txin, t)
         IN  IF r.kind = "Ok" THEN ValidResult ELSE Invalid(r.msg)

verify_p2pkh(t, txin) ==
    IF txin.scriptsig = << >> THEN Panic("p2pkh scriptsig empty")
    ELSE LET r == evaluate_script(txin.scriptsig \o txin.prevout.scriptpubkey, txin, t)
         IN  IF r.kind = "Ok" THEN ValidResult
             ELSE IF r.kind = "Err" THEN Invalid(r.msg)
             ELSE Panic(r.msg)

---------------------------------------------------------------------------
(* validation/mod.rs *)

\* signature_verification, from input i on
RECURSIVE signature_verification(_, _)
signature_verification(t, i) ==
    IF i > Len(t.vin) THEN ValidResult
    ELSE LET txin == t.vin[i]
             r == IF txin.in_type = <<"P2WPKH">> THEN verify_p2wpkh(t, txin)
                  ELSE IF txin.in_type = <<"P2PKH">> THEN verify_p2pkh(t, txin)
                  ELSE Invalid("Input type not implemented!")
         IN  IF r.kind = "Valid" THEN signature_verification(t, i + 1) ELSE r

---------------------------------------------------------------------------
(* main.rs: validate_transactions, with Transaction::validate run check by   *)
(* check on parsed_transactions[vi]                                          *)

Cur == parsed_transactions[vi]

block_vars ==
    <<coinbase_tx, block_header, nonce, block_hashes, block, output_file>>

mine_vars == <<sorted_transactions, block_ordered, block_vars>>

sweep_vars == <<transactions, nothing_removed, mine_vars>>

\* validate returned res for the record in work (now t): the match arm of
\* validate_transactions, then the next record or the return
Return(t, res) ==
    /\ parsed_transactions' = [parsed_transactions EXCEPT ![vi] = t]
    /\ judged' = [judged EXCEPT ![vi] = res]
    /\ invalid_transactions' =
          IF res.kind = "Invalid"
          THEN invalid_transactions \cup {t.meta.txid_hex}
          ELSE invalid_transactions
    /\ IF res.kind = "Panic"
       THEN pc' = "aborted" /\ UNCHANGED <<vi, vstep>>
       ELSE IF vi = Len(parsed_transactions)
       THEN pc' = "remove_invalid" /\ UNCHANGED <<vi, vstep>>
       ELSE pc' = pc /\ vi' = vi + 1 /\ vstep' = "values"

\* the check passed: on to the next one
Continue(t, next) ==
    /\ parsed_transactions' = [parsed_transactions EXCEPT ![vi] = t]
    /\ vstep' = next
    /\ UNCHANGED <<pc, vi, judged, invalid_transactions>>

CheckValues ==
    /\ pc = "validate" /\ vstep = "values"
    /\ LET v == validate_values_and_set_fee(Cur, build)
       IN  /\ values_ret' = [values_ret EXCEPT ![vi] = v.ret]
           /\ IF v.ret = "panic"
              THEN Return(v.tx, Panic("attempt to add with overflow"))
              ELSE IF v.ret = "false"
              THEN Return(v.tx, Invalid("Values don't add up."))
              ELSE Continue(v.tx, "txid")
    /\ UNCHANGED <<build, sweep_vars>>

CheckTxid ==
    /\ pc = "validate" /\ vstep = "txid"
    /\ LET h == validate_txid_hash_filename(Cur)
       IN  IF ~ h.ret
           THEN Return(h.tx, Invalid("Txid does not represent filename!"))
           ELSE Continue(h.tx, "weight")
    /\ UNCHANGED <<build, values_ret, sweep_vars>>

CheckWeight ==
    /\ pc = "validate" /\ vstep = "weight"
    /\ LET w == validate_and_set_weight(Cur)
       IN  IF ~ w.ret
           THEN Return(w.tx, Invalid("Transaction weight too high!"))
           ELSE Continue(w.tx, "feerate")
    /\ UNCHANGED <<build, values_ret, sweep_vars>>

CheckFeerate ==
    /\ pc = "validate" /\ vstep = "feerate"
    /\ IF ~ validate_feerate(Cur)
       THEN Return(Cur, Invalid("too low feerate"))
       ELSE Continue(Cur, "signatures")
    /\ UNCHANGED <<build, values_ret, sweep_vars>>

CheckSignatures ==
    /\ pc = "validate" /\ vstep = "signatures"
    /\ Return(Cur, signature_verification(Cur, 1))
    /\ UNCHANGED <<build, values_ret, sweep_vars>>

Validate ==
    \/ CheckValues
    \/ CheckTxid
    \/ CheckWeight
    \/ CheckFeerate
    \/ CheckSignatures

---------------------------------------------------------------------------
(* utils_main.rs *)

\* convert_to_hashmap: insert record after record under meta.txid_hex, a later
\* record replacing an earlier one of the same key
RECURSIVE convert_to_hashmap(_)
convert_to_hashmap(txs) ==
    IF txs = << >> THEN << >>
    ELSE LET rest == convert_to_hashmap(SubSeq(txs, 1, Len(txs) - 1))
             last == txs[Len(txs)]
         IN  [k \in DOMAIN rest \cup {last.meta.txid_hex} |->
                IF k = last.meta.txid_hex THEN last ELSE rest[k]]

\* the orders a HashMap with these keys may be iterated in
Orders(keys) ==
    {o \in [1..Cardinality(keys) -> keys] :
        \A i, j \in DOMAIN o : i # j => o[i] # o[j]}

\* the first for loop of a pass, also marking a transaction with an input
\* whose txid is no key of the map
RECURSIVE mark_children_unloaded(_, _, _)
mark_children_unloaded(order, map, invalid) ==
    IF order = << >> THEN invalid
    ELSE LET txid == Head(order)
             hit == \E i \in DOMAIN map[txid].vin :
                        \/ map[txid].vin[i].txid \in invalid
                        \/ map[txid].vin[i].txid \notin DOMAIN map
         IN  mark_children_unloaded(Tail(order), map,
                                    IF hit THEN invalid \cup {txid} ELSE invalid)

\* the first for loop of a pass: a transaction with an input spending an
\* invalid txid becomes invalid; the set grows while the map is iterated
RECURSIVE mark_children(_, _, _)
mark_children(order, map, invalid) ==
    IF order = << >> THEN invalid
    ELSE LET txid == Head(order)
             hit == \E i \in DOMAIN map[txid].vin :
                        map[txid].vin[i].txid \in invalid
         IN  mark_children(Tail(order), map,
                           IF hit THEN invalid \cup {txid} ELSE invalid)

\* the second for loop of a pass leaving every record in place
remove_marked_none(map, invalid) == map

\* the second for loop of a pass: the map without the invalid keys
remove_marked(map, invalid) == [k \in DOMAIN map \ invalid |-> map[k]]

RemoveInvalidEnter ==
    /\ pc = "remove_invalid"
    /\ transactions' = convert_to_hashmap(parsed_transactions)
    /\ nothing_removed' = FALSE
    /\ pc' = "sweep"
    /\ UNCHANGED <<build, parsed_transactions, vi, vstep, judged, values_ret,
                   invalid_transactions, mine_vars>>

\* one iteration that clears the flag for every invalid txid, in the map or not
SweepPass_any_invalid ==
    /\ pc = "sweep" /\ ~ nothing_removed
    /\ \E order \in Orders(DOMAIN transactions) :
          LET marked == mark_children(order, transactions, invalid_transactions)
              kept == remove_marked(transactions, marked)
          IN  /\ invalid_transactions' = marked
              /\ transactions' = kept
              /\ nothing_removed' = (marked = {})
    /\ UNCHANGED <<build, pc, parsed_transactions, vi, vstep, judged, values_ret,
                   mine_vars>>

\* one iteration of the while loop
SweepPass ==
    /\ pc = "sweep" /\ ~ nothing_removed
    /\ \E order \in Orders(DOMAIN transactions) :
          LET marked == mark_children(order, transactions, invalid_transactions)
              kept == remove_marked(transactions, marked)
          IN  /\ invalid_transactions' = marked
              /\ transactions' = kept
              /\ nothing_removed' = (DOMAIN kept = DOMAIN transactions)
    /\ UNCHANGED <<build, pc, parsed_transactions, vi, vstep, judged, values_ret,
                   mine_vars>>

\* the loop ends and the map is returned to main
RemoveInvalidReturn ==
    /\ pc = "sweep" /\ nothing_removed
    /\ pc' = "mine"
    /\ UNCHANGED <<build, parsed_transactions, vi, vstep, judged, values_ret,
                   invalid_transactions, transactions, nothing_removed,
                   mine_vars>>

RemoveInvalid == RemoveInvalidEnter \/ SweepPass \/ RemoveInvalidReturn

---------------------------------------------------------------------------
(* mining/assign_parents.rs *)

\* the input txids that are keys of the map, in input order
RECURSIVE parents_in_mempool(_, _)
parents_in_mempool(vin, map) ==
    IF vin = << >> THEN << >>
    ELSE (IF Head(vin).txid \in DOMAIN map THEN <<Head(vin).txid>> ELSE << >>)
           \o parents_in_mempool(Tail(vin), map)

assign_mempool_parents(map) ==
    [txid \in DOMAIN map |->
        LET parents == parents_in_mempool(map[txid].vin, map)
        IN  IF parents = << >> THEN map[txid]
            ELSE [map[txid] EXCEPT !.meta.parents = Some(parents)]]

---------------------------------------------------------------------------
(* mining/packet_weight.rs *)

FeeAndWeight(fee, weight) == [panic |-> FALSE, fee |-> fee, weight |-> weight]

PacketPanic == [panic |-> TRUE, fee |-> U64(0), weight |-> 0]

\* calc_parents: fee and weight of a transaction plus those of calc_parents
\* of each entry of its parents, a transaction counted once per path
RECURSIVE calc_parents(_, _, _)
RECURSIVE add_parents(_, _, _, _, _)
add_parents(map, parents, i, acc, b) ==
    IF i > Len(parents) \/ acc.panic THEN acc
    ELSE LET temp_result == calc_parents(map, parents[i], b)
         IN  IF temp_result.panic \/ (b = "debug" /\ Overflows(acc.fee, temp_result.fee))
             THEN PacketPanic
             ELSE add_parents(map, parents, i + 1,
                              FeeAndWeight(WrappingAdd(acc.fee, temp_result.fee),
                                           acc.weight + temp_result.weight), b)

calc_parents(map, child_txid, b) ==
    IF child_txid \notin DOMAIN map THEN PacketPanic
    ELSE LET child_transaction == map[child_txid]
             own == FeeAndWeight(child_transaction.meta.fee,
                                 child_transaction.meta.weight)
         IN  IF child_transaction.meta.parents.some
             THEN add_parents(map, child_transaction.meta.parents.v, 1, own, b)
             ELSE own

\* calculate_packet_weights: [panic, map]
calculate_packet_weights(map, b) ==
    LET result == [txid \in DOMAIN map |-> calc_parents(map, txid, b)]
    IN  IF \E txid \in DOMAIN map : result[txid].panic \/ result[txid].weight = 0
        THEN [panic |-> TRUE, map |-> map]
        ELSE [panic |-> FALSE,
              map |-> [txid \in DOMAIN map |->
                  [map[txid] EXCEPT !.meta.packet_data =
                      [packet_fee_sat |-> result[txid].fee,
                       packet_weight |-> result[txid].weight,
                       packet_feerate_weight |->
                           DivSmall(result[txid].fee, result[txid].weight)]]]]

---------------------------------------------------------------------------
(* mining/transaction_sorting.rs; indices count from 0 as in the code *)

\* get_parent_index: the index of the first record of that txid_hex, the
\* length when there is none
RECURSIVE get_parent_index_from(_, _, _)
get_parent_index_from(txs, txid, parent_index) ==
    IF parent_index = Len(txs) THEN parent_index
    ELSE IF txs[parent_index + 1].meta.txid_hex = txid THEN parent_index
    ELSE get_parent_index_from(txs, txid, parent_index + 1)

get_parent_index(txs, txid) == get_parent_index_from(txs, txid, 0)

\* Vec::remove and Vec::insert
Remove(txs, index) == SubSeq(txs, 1, index) \o SubSeq(txs, index + 2, Len(txs))

Insert(txs, index, x) ==
    SubSeq(txs, 1, index) \o <<x>> \o SubSeq(txs, index + 1, Len(txs))

push_parent_behind_child(txs, parent_index, child_index) ==
    IF parent_index < Len(txs) /\ child_index < Len(txs)
    THEN Insert(Remove(txs, parent_index), child_index + 1, txs[parent_index + 1])
    ELSE txs

push_parent_in_front_skipped(txs, parent_index, child_index) == txs

push_parent_in_front(txs, parent_index, child_index) ==
    IF parent_index < Len(txs) /\ child_index < Len(txs)
    THEN Insert(Remove(txs, parent_index), child_index, txs[parent_index + 1])
    ELSE txs

NoLift == [found |-> FALSE, parent_index |-> 0, tx_index |-> 0]

\* the for loops of one pass looking at the first parent of a record only
RECURSIVE first_lift_one_parent(_, _, _)
first_lift_one_parent(presorted, tx_index, k) ==
    IF tx_index = Len(presorted) THEN NoLift
    ELSE LET tx == presorted[tx_index + 1]
         IN  IF ~ tx.meta.parents.some \/ k > 1 \/ k > Len(tx.meta.parents.v)
             THEN first_lift_one_parent(presorted, tx_index + 1, 1)
             ELSE LET parent_index == get_parent_index(presorted, tx.meta.parents.v[k])
                  IN  IF parent_index > tx_index
                      THEN [found |-> TRUE, parent_index |-> parent_index,
                            tx_index |-> tx_index]
                      ELSE first_lift_one_parent(presorted, tx_index + 1, 1)

\* the for loops of one pass of put_parents_in_front, from record tx_index
\* and its k-th parent on: the first parent found behind its child
RECURSIVE first_lift(_, _, _)
first_lift(presorted, tx_index, k) ==
    IF tx_index = Len(presorted) THEN NoLift
    ELSE LET tx == presorted[tx_index + 1]
         IN  IF ~ tx.meta.parents.some \/ k > Len(tx.meta.parents.v)
             THEN first_lift(presorted, tx_index + 1, 1)
             ELSE LET parent_index == get_parent_index(presorted, tx.meta.parents.v[k])
                  IN  IF parent_index > tx_index
                      THEN [found |-> TRUE, parent_index |-> parent_index,
                            tx_index |-> tx_index]
                      ELSE first_lift(presorted, tx_index, k + 1)

\* sort_by with the comparison of sort_transactions: a stable sort, highest
\* packet_feerate_weight first
\* place putting a record before the records of its own feerate
RECURSIVE place_before_equal(_, _, _)
place_before_equal(sorted, x, i) ==
    IF i > Len(sorted)
         \/ ~ Lt(x.meta.packet_data.packet_feerate_weight,
                 sorted[i].meta.packet_data.packet_feerate_weight)
    THEN Insert(sorted, i - 1, x)
    ELSE place_before_equal(sorted, x, i + 1)

\* one insertion of the stable sort: x goes behind every record whose
\* feerate is not lower than its own
RECURSIVE place(_, _, _)
place(sorted, x, i) ==
    IF i > Len(sorted)
         \/ Lt(sorted[i].meta.packet_data.packet_feerate_weight,
               x.meta.packet_data.packet_feerate_weight)
    THEN Insert(sorted, i - 1, x)
    ELSE place(sorted, x, i + 1)

RECURSIVE sort_by(_)
sort_by(txs) ==
    IF txs = << >> THEN << >>
    ELSE place(sort_by(SubSeq(txs, 1, Len(txs) - 1)), txs[Len(txs)], 1)

\* cut_size leaving out a record that does not fit and going on
RECURSIVE cut_size_skipping(_, _)
cut_size_skipping(txs, free_block_space) ==
    IF txs = << >> THEN << >>
    ELSE IF free_block_space > Head(txs).meta.weight
    THEN <<Head(txs)>>
           \o cut_size_skipping(Tail(txs), free_block_space - Head(txs).meta.weight)
    ELSE cut_size_skipping(Tail(txs), free_block_space)


\* cut_size taking records as long as any space is left
RECURSIVE cut_size_any_space(_, _)
cut_size_any_space(txs, free_block_space) ==
    IF txs = << >> THEN << >>
    ELSE IF free_block_space > 0
    THEN <<Head(txs)>>
           \o cut_size_any_space(Tail(txs), free_block_space - Head(txs).meta.weight)
    ELSE << >>

\* cut_size taking a record that fills the space left
RECURSIVE cut_size_filling(_, _)
cut_size_filling(txs, free_block_space) ==
    IF txs = << >> THEN << >>
    ELSE IF free_block_space >= Head(txs).meta.weight
    THEN <<Head(txs)>>
           \o cut_size_filling(Tail(txs), free_block_space - Head(txs).meta.weight)
    ELSE << >>

\* cut_size: the records up to the first one that does not fit
RECURSIVE cut_size(_, _)
cut_size(txs, free_block_space) ==
    IF txs = << >> THEN << >>
    ELSE IF free_block_space > Head(txs).meta.weight
    THEN <<Head(txs)>>
           \o cut_size(Tail(txs), free_block_space - Head(txs).meta.weight)
    ELSE << >>

BlockSpace == 3970000

---------------------------------------------------------------------------
(* mining/mod.rs: mine_block, call by call *)

validation_vars ==
    <<build, parsed_transactions, vi, vstep, judged, values_ret,
      invalid_transactions, nothing_removed>>

AssignParents ==
    /\ pc = "mine"
    /\ transactions' = assign_mempool_parents(transactions)
    /\ pc' = "packet_weights"
    /\ UNCHANGED <<validation_vars, mine_vars>>

CalculatePacketWeights ==
    /\ pc = "packet_weights"
    /\ LET r == calculate_packet_weights(transactions, build)
       IN  /\ transactions' = r.map
           /\ pc' = IF r.panic THEN "aborted" ELSE "sort"
    /\ UNCHANGED <<validation_vars, mine_vars>>

\* sort_transactions, its first line: the values of the map collected in the
\* order the HashMap yields them
CollectValues ==
    /\ pc = "sort"
    /\ \E order \in Orders(DOMAIN transactions) :
          sorted_transactions' = [i \in DOMAIN order |-> transactions[order[i]]]
    /\ pc' = "sort_by"
    /\ UNCHANGED <<validation_vars, transactions, block_ordered, block_vars>>

\* sort_transactions: the Vec sorted in place, up to the call of
\* put_parents_in_front
SortByFeerate ==
    /\ pc = "sort_by"
    /\ sorted_transactions' = sort_by(sorted_transactions)
    /\ pc' = "parents_in_front"
    /\ UNCHANGED <<validation_vars, transactions, block_ordered, block_vars>>

\* one iteration of the while loop of put_parents_in_front
PutParentsPass ==
    /\ pc = "parents_in_front"
    /\ LET lift == first_lift(sorted_transactions, 0, 1)
       IN  IF lift.found
           THEN /\ sorted_transactions' =
                      push_parent_in_front(sorted_transactions,
                                           lift.parent_index, lift.tx_index)
                /\ pc' = pc
           ELSE /\ pc' = "cut_size"
                /\ UNCHANGED sorted_transactions
    /\ UNCHANGED <<validation_vars, transactions, block_ordered, block_vars>>

CutSize ==
    /\ pc = "cut_size"
    /\ block_ordered' = cut_size(sorted_transactions, BlockSpace)
    /\ pc' = "coinbase"
    /\ UNCHANGED <<validation_vars, transactions, sorted_transactions,
                   block_vars>>

MineBlock ==
    \/ AssignParents
    \/ CalculatePacketWeights
    \/ CollectValues
    \/ SortByFeerate
    \/ PutParentsPass
    \/ CutSize

---------------------------------------------------------------------------
(* mining/construct_coinbase.rs *)

NoCoinbase ==
    [txid_hex |-> << >>, txid_natural_bytes |-> << >>, assembled_tx |-> << >>]

\* the loop of get_merkle_root, one level: an odd count pushes a clone of
\* the last hash, then each pair is concatenated and double-hashed
next_stage_lone_last(merkle_tree) ==
    [i \in 1..((Len(merkle_tree) + 1) \div 2) |->
        IF 2 * i <= Len(merkle_tree)
        THEN double_hash(merkle_tree[2 * i - 1] \o merkle_tree[2 * i])
        ELSE merkle_tree[2 * i - 1]]

next_stage(merkle_tree) ==
    LET padded == IF Len(merkle_tree) % 2 # 0
                  THEN Append(merkle_tree, merkle_tree[Len(merkle_tree)])
                  ELSE merkle_tree
    IN  [i \in 1..(Len(padded) \div 2) |->
            double_hash(padded[2 * i - 1] \o padded[2 * i])]

RECURSIVE merkle_loop(_)
merkle_loop(merkle_tree) ==
    IF Len(merkle_tree) > 1 THEN merkle_loop(next_stage(merkle_tree))
    ELSE merkle_tree

\* both callers pass a list that starts with one fixed entry, so the index
\* [0] of the last line always exists
get_merkle_root(block_txs) ==
    IF Len(block_txs) = 1 THEN block_txs[1] ELSE merkle_loop(block_txs)[1]

WitnessReserved == Zeros(32)

calc_wtxid_commitment_scriptpubkey(block_txs) ==
    LET txids_bytes ==
            <<WitnessReserved>> \o
            [i \in DOMAIN block_txs |->
                Reverse(hex_decode(block_txs[i].meta.wtxid_hex))]
        wtxid_merkle_root == get_merkle_root(txids_bytes) \o WitnessReserved
        witness_commitment == double_hash(wtxid_merkle_root)
    IN  <<106, 36, 170, 33, 169, 237>> \o witness_commitment

\* count_fees: all_fees += tx.meta.fee on a u64; [panic, value]
RECURSIVE count_fees_from(_, _, _, _)
count_fees_from(block_txs, i, all_fees, b) ==
    IF i > Len(block_txs) THEN [panic |-> FALSE, value |-> all_fees]
    ELSE IF Overflows(all_fees, block_txs[i].meta.fee) /\ b = "debug"
    THEN [panic |-> TRUE, value |-> all_fees]
    ELSE count_fees_from(block_txs, i + 1,
                         WrappingAdd(all_fees, block_txs[i].meta.fee), b)

count_fees_after_first(block_txs, b) == count_fees_from(block_txs, 2, U64(0), b)

count_fees(block_txs, b) == count_fees_from(block_txs, 1, U64(0), b)

Subsidy == 625000000

BlockHeight == 839653

\* let reward: u64 = count_fees(block_txs) + 625000000
reward(block_txs, b) ==
    LET fees == count_fees(block_txs, b)
    IN  IF fees.panic \/ (Overflows(fees.value, U64(Subsidy)) /\ b = "debug")
        THEN [panic |-> TRUE, value |-> fees.value]
        ELSE [panic |-> FALSE, value |-> WrappingAdd(fees.value, U64(Subsidy))]

CoinbaseInput ==
    <<1>> \o Zeros(32) \o <<255, 255, 255, 255>>

CoinbaseMessage ==
    <<16, 67, 121, 112, 104, 101, 114, 112, 117, 110, 107, 70, 117, 116,
      117, 114, 101>>

RewardScriptpubkey ==
    <<0, 20, 53, 246, 222, 38, 12, 159, 59, 222, 228, 117, 36, 196, 115,
      166, 1, 108, 12, 5, 92, 185>>

serialize_coinbase_transaction(block_txs, is_segwit_arg, b) ==
    LET wtxid_commitment_scriptpubkey ==
            calc_wtxid_commitment_scriptpubkey(block_txs)
        scriptsig == varint(Len(varint(BlockHeight))) \o varint(BlockHeight)
                         \o CoinbaseMessage
    IN  <<1, 0, 0, 0>>
          \o (IF is_segwit_arg THEN <<0, 1>> ELSE << >>)
          \o CoinbaseInput
          \o varint(Len(scriptsig)) \o scriptsig
          \o <<255, 255, 255, 255>>
          \o <<2>>
          \o reward(block_txs, b).value
          \o varint(Len(RewardScriptpubkey)) \o RewardScriptpubkey
          \o Zeros(8)
          \o varint(Len(wtxid_commitment_scriptpubkey))
          \o wtxid_commitment_scriptpubkey
          \o (IF is_segwit_arg THEN <<1, 32>> \o WitnessReserved ELSE << >>)
          \o <<0, 0, 0, 0>>

assemble_coinbase_transaction(block_txs, b) ==
    LET coinbase_tx_witness == serialize_coinbase_transaction(block_txs, TRUE, b)
        coinbase_tx_no_witness ==
            serialize_coinbase_transaction(block_txs, FALSE, b)
    IN  [txid_hex |-> hex_encode(get_txid(coinbase_tx_no_witness)),
         txid_natural_bytes |-> double_hash(coinbase_tx_no_witness),
         assembled_tx |-> coinbase_tx_witness]

---------------------------------------------------------------------------
(* mining/header.rs *)

PreviousBlock ==
    <<0, 0, 0, 0, 0, 0, 0, 0, 0, 1, 144, 27, 159, 59, 108, 122, 12, 52, 178,
      11, 41, 185, 80, 208, 216, 255, 163, 108, 99, 151, 156, 28>>

\* the target of mine_nonce, as the hex literal gives it (big-endian)
TargetBytes == <<0, 0, 15, 255, 240>> \o Zeros(27)

TargetBits == <<255, 255, 0, 31>>

\* BigUint::from_bytes_le / from_bytes_be: a number is its little-endian bytes
from_bytes_le_reversed(bytes) == Reverse(bytes)

from_bytes_le(bytes) == bytes
from_bytes_be(bytes) == Reverse(bytes)

\* the lists the two merkle roots are taken over
header_txids_bytes(block_transactions, coinbase) ==
    <<coinbase.txid_natural_bytes>> \o
    [i \in DOMAIN block_transactions |->
        Reverse(hex_decode(block_transactions[i].meta.txid_hex))]

\* construct_header up to the call of mine_nonce (76 bytes in the program)
header_without_nonce(block_transactions, coinbase, time_sec) ==
    <<32, 0, 0, 0>>
      \o Reverse(PreviousBlock)
      \o get_merkle_root(header_txids_bytes(block_transactions, coinbase))
      \o to_le_bytes(time_sec, 4)
      \o TargetBits

\* the candidate mine_nonce hashes for a nonce
candidate(header, n) == header \o to_le_bytes(n, 4)

---------------------------------------------------------------------------
(* mining/mod.rs: return_block, and main.rs: output_block *)

NoBlock == [header_hex |-> << >>, coinbase_tx_hex |-> << >>, txids_hex |-> << >>]

return_block_without_coinbase(block_header_bytes, coinbase, block_transactions) ==
    [header_hex |-> hex_encode(block_header_bytes),
     coinbase_tx_hex |-> hex_encode(coinbase.assembled_tx),
     txids_hex |-> [i \in DOMAIN block_transactions |->
                       block_transactions[i].meta.txid_hex]]

return_block(block_header_bytes, coinbase, block_transactions) ==
    [header_hex |-> hex_encode(block_header_bytes),
     coinbase_tx_hex |-> hex_encode(coinbase.assembled_tx),
     txids_hex |-> <<coinbase.txid_hex>> \o
                   [i \in DOMAIN block_transactions |->
                       block_transactions[i].meta.txid_hex]]

\* a file is the sequence of the writes made to it: writeln! ends its text
\* with a newline, write! does not
writeln(file, text) == Append(file, [text |-> text, newline |-> TRUE])
write(file, text) == Append(file, [text |-> text, newline |-> FALSE])

RECURSIVE write_txids(_, _, _)
write_txids(file, txids_hex, index) ==
    IF index >= Len(txids_hex) THEN file
    ELSE write_txids(IF index < Len(txids_hex) - 1
                     THEN writeln(file, txids_hex[index + 1])
                     ELSE write(file, txids_hex[index + 1]),
                     txids_hex, index + 1)

output_block(mined_block) ==
    write_txids(writeln(writeln(<< >>, mined_block.header_hex),
                        mined_block.coinbase_tx_hex),
                mined_block.txids_hex, 0)

---------------------------------------------------------------------------
(* mining/mod.rs: mine_block after cut_size, then the end of main *)

before_coinbase == <<validation_vars, transactions, sorted_transactions,
                     block_ordered>>

AssembleCoinbase ==
    /\ pc = "coinbase"
    /\ IF reward(block_ordered, build).panic
       THEN pc' = "aborted" /\ UNCHANGED coinbase_tx
       ELSE /\ coinbase_tx' = assemble_coinbase_transaction(block_ordered, build)
            /\ pc' = "header"
    /\ UNCHANGED <<before_coinbase, block_header, nonce, block_hashes, block,
                   output_file>>

\* what SystemTime::now() may give, as seconds cast to u32
Times == {0, 1714000000}

\* construct_header up to the call of mine_nonce
ConstructHeader ==
    /\ pc = "header"
    /\ \E time_sec \in Times :
          block_header' =
              header_without_nonce(block_ordered, coinbase_tx, time_sec)
    /\ nonce' = 0
    /\ block_hashes' = << >>
    /\ pc' = "mine_nonce"
    /\ UNCHANGED <<before_coinbase, coinbase_tx, block, output_file>>

\* the last nonce of the loop: u32::MAX in the program
max_nonce == 2

\* The 32 bytes double_hash may give for a candidate.  Read little-endian:
\* zero, a value below the target that read big-endian is the target, the
\* target itself, and the largest value.
HeaderDigests ==
    {Zeros(32), TargetBytes, Reverse(TargetBytes), [i \in 1..32 |-> 255]}

\* one iteration of the for loop of mine_nonce; on return construct_header
\* appends the nonce
MineNonce ==
    /\ pc = "mine_nonce"
    /\ \E block_hash \in HeaderDigests :
          /\ block_hashes' =
                Append(block_hashes,
                       [candidate |-> candidate(block_header, nonce),
                        block_hash |-> block_hash])
          /\ IF Lt(from_bytes_le(block_hash), from_bytes_be(TargetBytes))
             THEN /\ block_header' = candidate(block_header, nonce)
                  /\ pc' = "return_block"
                  /\ UNCHANGED nonce
             ELSE IF nonce = max_nonce
             THEN pc' = "aborted" /\ UNCHANGED <<block_header, nonce>>
             ELSE pc' = pc /\ nonce' = nonce + 1 /\ UNCHANGED block_header
    /\ UNCHANGED <<before_coinbase, coinbase_tx, block, output_file>>

ReturnBlock ==
    /\ pc = "return_block"
    /\ block' = return_block(block_header, coinbase_tx, block_ordered)
    /\ pc' = "output"
    /\ UNCHANGED <<before_coinbase, coinbase_tx, block_header, nonce,
                   block_hashes, output_file>>

OutputBlock ==
    /\ pc = "output"
    /\ output_file' = output_block(block)
    /\ pc' = "done"
    /\ UNCHANGED <<before_coinbase, coinbase_tx, block_header, nonce,
                   block_hashes, block>>

BuildBlock ==
    \/ AssembleCoinbase
    \/ ConstructHeader
    \/ MineNonce
    \/ ReturnBlock
    \/ OutputBlock

---------------------------------------------------------------------------
(* The loader (parsing/mod.rs): records as parse_file_content leaves them  *)

\* the txid of a confirmed transaction: no record of the directory has it
ExternalTxid == <<0, 0>>

PubKey(k) == <<2, k>>
BadPubKey(k) == <<5, k>>

TxOut(value, len) == [value |-> value, scriptpubkey |-> [len |-> len, fill |-> 7]]

\* parse_file_content: every input's type is classified
TxIn(txid, value, type_string, scriptsig, scriptpubkey, witness) ==
    [txid |-> txid, scriptsig |-> scriptsig,
     prevout |-> [scriptpubkey |-> scriptpubkey,
                  scriptpubkey_type |-> type_string, value |-> value],
     witness |-> witness, in_type |-> fetch_type(type_string),
     sequence |-> <<255, 255, 255, 255>>]

\* an input spending a v0_p2wpkh output locked to the key `owner`
P2WPKHIn(txid, value, sig, pubkey, owner) ==
    TxIn(txid, value, "v0_p2wpkh", << >>,
         <<0, Len(hash160(owner))>> \o hash160(owner), Some(<<sig, pubkey>>))

\* an input spending a p2pkh output locked to the key `owner`
P2PKHIn(txid, value, sig, pubkey, owner) ==
    TxIn(txid, value, "p2pkh",
         <<Len(sig)>> \o sig \o <<Len(pubkey)>> \o pubkey,
         <<118, 169, Len(hash160(owner))>> \o hash160(owner) \o <<136, 172>>,
         None)

\* an input of a type without verifier
OtherIn(txid, value, type_string) ==
    TxIn(txid, value, type_string, << >>, <<81>>, None)

Tx(vin, vout, stem) ==
    [version |-> 1, locktime |-> 0, vin |-> vin, vout |-> vout,
     meta |-> [DefaultMeta EXCEPT !.json_path = stem]]

\* the stem of the file a record must be in to pass the filename check
RightStem(vin, vout) == hash_txid(hex_decode(TxidHex(Tx(vin, vout, << >>))))

GoodSig == <<48, 1, 1>>

InitMain(txs, builds) ==
    /\ build \in builds
    /\ parsed_transactions = txs
    /\ pc = IF txs = << >> THEN "remove_invalid" ELSE "validate"
    /\ vi = 1
    /\ vstep = "values"
    /\ judged = [i \in DOMAIN txs |-> NoResult]
    /\ values_ret = [i \in DOMAIN txs |-> "none"]
    /\ invalid_transactions = {}
    /\ transactions = << >>
    /\ nothing_removed = FALSE
    /\ sorted_transactions = << >>
    /\ block_ordered = << >>
    /\ coinbase_tx = NoCoinbase
    /\ block_header = << >>
    /\ nonce = 0
    /\ block_hashes = << >>
    /\ block = NoBlock
    /\ output_file = << >>

---------------------------------------------------------------------------
(* SpecValues: one record, its amounts drawn around the u64 and money limits *)

Pow2_63 == [i \in 1..8 |-> IF i = 8 THEN 128 ELSE 0]
U64Max == [i \in 1..8 |-> 255]

Values == {U64(0), U64(100000), MaxMoney, Pow2_63, U64Max}

ValueTxs ==
    {Tx(vin, vout, RightStem(vin, vout)) :
        vin \in SeqsUpTo({P2WPKHIn(ExternalTxid, v, GoodSig, PubKey(1), PubKey(1)) :
                            v \in Values}, MaxInputs),
        vout \in SeqsUpTo({TxOut(v, 22) : v \in Values}, MaxOutputs)}

InitValues == \E t \in ValueTxs : InitMain(<<t>>, {"debug", "release"})

NextValues == Validate \/ RemoveInvalid

SpecValues == InitValues /\ [][NextValues]_vars

---------------------------------------------------------------------------
(* SpecSig: one record with sound amounts, its inputs drawn over the input  *)
(* types and over signatures and public keys that parse or not, verify or   *)
(* not.  No sum overflows here, so one build stands for both.               *)

Sigs == {GoodSig, <<49, 1, 1>>, <<48, 9, 1>>, <<48, 1, 2>>}
PubKeys == {PubKey(1), BadPubKey(1)}

SignedIns(txid, value) ==
    {P2WPKHIn(txid, value, sig, pk, pk) : sig \in Sigs, pk \in PubKeys}
      \cup {P2PKHIn(txid, value, sig, pk, pk) : sig \in Sigs, pk \in PubKeys}
      \cup {P2WPKHIn(txid, value, GoodSig, PubKey(1), PubKey(2)),
            P2PKHIn(txid, value, GoodSig, PubKey(1), PubKey(2)),
            TxIn(txid, value, "v0_p2wpkh", << >>,
                 <<0, Len(hash160(PubKey(1)))>> \o hash160(PubKey(1)), None)}

OtherTypes == {"v1_p2tr", "v0_p2wsh", "p2sh", "op_return"}

SigIns ==
    SignedIns(ExternalTxid, U64(100000))
      \cup {OtherIn(ExternalTxid, U64(100000), ty) : ty \in OtherTypes}

SigTxs ==
    {Tx(vin, <<TxOut(U64(0), 22)>>, RightStem(vin, <<TxOut(U64(0), 22)>>)) :
        vin \in SeqsUpTo(SigIns, MaxInputs) \ {<< >>}}

InitSig == \E t \in SigTxs : InitMain(<<t>>, {"release"})

NextSig == Validate \/ RemoveInvalid

SpecSig == InitSig /\ [][NextSig]_vars

---------------------------------------------------------------------------
(* SpecSweep: a directory of up to MaxRecords files drawn from records that  *)
(* are valid or fail one of the checks, and records spending them            *)

MaxRecords == 3

GoodIn(txid) == P2WPKHIn(txid, U64(100000), GoodSig, PubKey(1), PubKey(1))

\* a record in the file its txid names
Filed(vin, vout) == Tx(vin, vout, RightStem(vin, vout))

\* the record t in the file its txid names
Refiled(t) ==
    [t EXCEPT !.meta.json_path = hash_txid(hex_decode(TxidHex(t)))]

\* valid, spending a confirmed output
RootA == Filed(<<GoodIn(ExternalTxid)>>, <<TxOut(U64(0), 22)>>)
\* the content of RootA in a file of another name
RootACopy == Tx(RootA.vin, RootA.vout, <<0>>)
\* outputs above the inputs: fails the value check
RootB == Filed(<<P2WPKHIn(ExternalTxid, U64(0), GoodSig, PubKey(1), PubKey(1))>>,
               <<TxOut(U64(100000), 22)>>)
\* no fee: fails the feerate check
RootF == Filed(<<P2WPKHIn(ExternalTxid, U64(0), GoodSig, PubKey(1), PubKey(1))>>,
               <<TxOut(U64(0), 23)>>)
\* an output script of a million bytes: fails the weight check
RootW == Filed(<<GoodIn(ExternalTxid)>>, <<TxOut(U64(0), 1000000)>>)
\* a signature of another key: fails signature verification
RootS == Filed(<<P2WPKHIn(ExternalTxid, U64(100000), <<48, 9, 1>>, PubKey(1),
                          PubKey(1))>>,
               <<TxOut(U64(0), 24)>>)

\* a valid record spending an output of parent
ChildOf(parent) == Filed(<<GoodIn(TxidHex(parent))>>, <<TxOut(U64(0), 22)>>)

Roots == {RootA, RootACopy, RootB, RootF, RootW, RootS}

Records ==
    Roots
      \cup {ChildOf(r) : r \in Roots \ {RootACopy}}
      \cup {ChildOf(ChildOf(RootS))}

\* the files of a directory are distinct
Directories ==
    {d \in SeqsUpTo(Records, MaxRecords) :
        \A i, j \in DOMAIN d : i # j => d[i] # d[j]}

InitSweep == \E d \in Directories : InitMain(d, {"release"})

NextSweep == Validate \/ RemoveInvalid

SpecSweep == InitSweep /\ [][NextSweep]_vars

---------------------------------------------------------------------------
(* SpecSweepLoop: the loop of remove_invalid_transactions running on (a step *)
(* of it that is possible is eventually made), on directories drawn from a  *)
(* valid record, two records that fail a check, and a chain of two          *)
(* descendants of one of them                                                *)

LoopRecords ==
    {RootA, ChildOf(RootA), RootB, RootS, ChildOf(RootS),
     ChildOf(ChildOf(RootS))}

LoopDirectories ==
    {d \in SeqsUpTo(LoopRecords, MaxRecords) :
        \A i, j \in DOMAIN d : i # j => d[i] # d[j]}

InitLoop == \E d \in LoopDirectories : InitMain(d, {"release"})

SpecSweepLoop == InitLoop /\ [][NextSweep]_vars /\ WF_vars(RemoveInvalid)

---------------------------------------------------------------------------
(* SpecMine: a directory of valid records, small and heavy, with low and    *)
(* high fees, some spending others, validated and mined                     *)

PayingIn(txid, value) == P2WPKHIn(txid, U64(value), GoodSig, PubKey(1), PubKey(1))

\* a low fee
Low == Filed(<<PayingIn(ExternalTxid, 1000)>>, <<TxOut(U64(0), 25)>>)
\* spends Low, pays more per weight unit
Mid == Filed(<<PayingIn(TxidHex(Low), 100000)>>, <<TxOut(U64(0), 25)>>)
\* spends Mid, pays still more
High == Filed(<<PayingIn(TxidHex(Mid), 1000000)>>, <<TxOut(U64(0), 25)>>)
\* spends Low and Mid
Both == Filed(<<PayingIn(TxidHex(Low), 100000), PayingIn(TxidHex(Mid), 500000)>>,
              <<TxOut(U64(0), 26)>>)
\* more than half the block space each
Heavy == Filed(<<PayingIn(ExternalTxid, 10000000)>>, <<TxOut(U64(0), 500000)>>)
Heavier == Filed(<<PayingIn(ExternalTxid, 30000000)>>, <<TxOut(U64(0), 500001)>>)
\* spends Heavy
HeavyChild == Filed(<<PayingIn(TxidHex(Heavy), 100000000)>>, <<TxOut(U64(0), 25)>>)

Mempool == {Low, Mid, High, Both, Heavy, Heavier, HeavyChild}

MineDirectories ==
    {d \in SeqsUpTo(Mempool, MaxRecords) :
        \A i, j \in DOMAIN d : i # j => d[i] # d[j]}

InitMine == \E d \in MineDirectories : InitMain(d, {"release"})

NextMine == Validate \/ RemoveInvalid \/ MineBlock

SpecMine == InitMine /\ [][NextMine]_vars

---------------------------------------------------------------------------
(* SpecScript: one record whose single input spends an output typed p2pkh,  *)
(* scriptsig and scriptpubkey drawn from short scripts                      *)

MaxScript == 3

\* OP_0, OP_PUSHBYTES_1, OP_PUSHNUM_1, OP_DROP, OP_DUP, OP_EQUAL
ScriptOps == {0, 1, 81, 117, 118, 135}

ScriptIns ==
    {TxIn(ExternalTxid, U64(100000), "p2pkh", scriptsig, scriptpubkey, None) :
        scriptsig \in SeqsUpTo(ScriptOps, MaxScript),
        scriptpubkey \in SeqsUpTo(ScriptOps, 1)}

ScriptTxs == {Filed(<<txin>>, <<TxOut(U64(0), 22)>>) : txin \in ScriptIns}

InitScript == \E t \in ScriptTxs : InitMain(<<t>>, {"release"})

NextScript == Validate \/ RemoveInvalid

SpecScript == InitScript /\ [][NextScript]_vars

---------------------------------------------------------------------------
(* SpecRot: one record whose single input spends an output typed p2pkh with *)
(* scriptpubkey OP_ROT, the scriptsig pushing up to MaxScript + 1 numbers   *)

\* OP_PUSHNUM_1, OP_PUSHNUM_2, OP_PUSHNUM_3
RotOps == {81, 82, 83}

RotIns ==
    {TxIn(ExternalTxid, U64(100000), "p2pkh", scriptsig, <<123>>, None) :
        scriptsig \in SeqsUpTo(RotOps, MaxScript + 1) \ {<< >>}}

RotTxs == {Filed(<<txin>>, <<TxOut(U64(0), 22)>>) : txin \in RotIns}

InitRot == \E t \in RotTxs : InitMain(<<t>>, {"release"})

SpecRot == InitRot /\ [][NextScript]_vars

---------------------------------------------------------------------------
(* SpecLock: one record whose single input spends an output typed p2pkh     *)
(* with scriptpubkey OP_CLTV or OP_CSV, the scriptsig pushing a number,     *)
(* over versions, locktimes and sequences                                   *)

\* OP_0; OP_PUSHNUM_1; OP_1NEGATE; 0x7f, 0x80, 0x81 and 0x00; 2^22 (the time
\* flag); 500,000,001; 2^31 (the disable flag) in five bytes
LockPushes ==
    {<<0>>, <<81>>, <<79>>, <<1, 127>>, <<1, 128>>, <<1, 129>>, <<1, 0>>,
     <<3, 0, 0, 64>>, <<4, 1, 101, 205, 29>>, <<5, 0, 0, 0, 128, 0>>}

LockSequences ==
    {<<255, 255, 255, 255>>, <<0, 0, 0, 0>>, <<16, 0, 64, 0>>, <<0, 0, 0, 128>>}

LockTxs ==
    {Refiled([Filed(<<[TxIn(ExternalTxid, U64(100000), "p2pkh",
                            deeper \o push, <<opcode>>, None)
                         EXCEPT !.sequence = sequence]>>,
                    <<TxOut(U64(0), 22)>>)
                EXCEPT !.version = version, !.locktime = locktime]) :
        deeper \in {<< >>, <<82>>}, push \in LockPushes, opcode \in {177, 178},
        sequence \in LockSequences, version \in {1, 2},
        locktime \in {0, 600000000}}

InitLock == \E t \in LockTxs : InitMain(<<t>>, {"release"})

SpecLock == InitLock /\ [][NextScript]_vars

\* SpecMine with the loop of put_parents_in_front running on: a pass that is
\* possible is eventually made
SpecMineFair == SpecMine /\ WF_vars(PutParentsPass)

---------------------------------------------------------------------------
(* SpecCut: main up to cut_size on records around the block budget: Heavy   *)
(* and Heavier do not fit together, Exact weighs the whole budget.          *)

\* a record without witness whose weight is 3,970,000
Exact ==
    Filed(<<P2PKHIn(ExternalTxid, U64(40000000), GoodSig, PubKey(1), PubKey(1))>>,
          <<TxOut(U64(0), 992460)>>)

CutPool == {Low, Heavy, Heavier, Exact}

CutDirectories ==
    {d \in SeqsUpTo(CutPool, MaxRecords) :
        \A i, j \in DOMAIN d : i # j => d[i] # d[j]}

InitCut == \E d \in CutDirectories : InitMain(d, {"release"})

SpecCut == InitCut /\ [][NextMine]_vars

---------------------------------------------------------------------------
(* SpecBlock: main from the directory to the output file.  The records     *)
(* pay different fees, Mid spends Low, and Heavy and Heavier do not fit    *)
(* into one block together.                                                *)

BlockPool == {Low, Mid, Heavy, Heavier}

BlockDirectories ==
    {d \in SeqsUpTo(BlockPool, MaxRecords) :
        \A i, j \in DOMAIN d : i # j => d[i] # d[j]}

InitBlock == \E d \in BlockDirectories : InitMain(d, {"release"})

NextBlock == Validate \/ RemoveInvalid \/ MineBlock \/ BuildBlock

SpecBlock == InitBlock /\ [][NextBlock]_vars

---------------------------------------------------------------------------
(* SpecClosed: mine_block on directories where a record of more than half   *)
(* the block space pays more per weight unit than the packet of HeavyChild, *)
(* so that Heavy and its child come behind it                               *)

Richest == Filed(<<PayingIn(ExternalTxid, 200000000)>>, <<TxOut(U64(0), 500001)>>)

ClosedPool == {Low, Heavy, HeavyChild, Richest}

ClosedDirectories ==
    {d \in SeqsUpTo(ClosedPool, MaxRecords) :
        \A i, j \in DOMAIN d : i # j => d[i] # d[j]}

InitClosed == \E d \in ClosedDirectories : InitMain(d, {"release"})

SpecClosed == InitClosed /\ [][NextMine]_vars

---------------------------------------------------------------------------
(* SpecOpcode: main on directories with one record whose single input       *)
(* spends an output typed p2pkh, with scripts of OP_PUSHNUM_1, OP_DROP and   *)
(* the bytes 0x61 and 0xff, which evaluate_script has no arm for             *)

OpcodeIns ==
    {TxIn(ExternalTxid, U64(100000), "p2pkh", scriptsig, scriptpubkey, None) :
        scriptsig \in SeqsUpTo({81, 117, 97}, 2) \ {<< >>},
        scriptpubkey \in {<<81>>, <<97>>, <<255>>}}

OpcodeTxs == {Filed(<<txin>>, <<TxOut(U64(0), 22)>>) : txin \in OpcodeIns}

OpcodeDirectories ==
    UNION {{<<t>>, <<Low, t>>, <<Low, Mid, t>>, <<t, Mid, Low>>} : t \in OpcodeTxs}

InitOpcode == \E d \in OpcodeDirectories : InitMain(d, {"release"})

SpecOpcode == InitOpcode /\ [][NextBlock]_vars

---------------------------------------------------------------------------
(* SpecMerkle: main on directories of up to MaxLeaves independent records  *)
(* that all fit into the block, so that the merkle trees have up to        *)
(* MaxLeaves + 1 leaves and odd counts on more than one level.             *)

MaxLeaves == 4

\* the output value is part of the txid: every leaf is a different transaction
Leaf(k) == Filed(<<PayingIn(ExternalTxid, 100000)>>, <<TxOut(U64(k), 25)>>)

MerkleDirectories == {[k \in 1..n |-> Leaf(k)] : n \in 0..MaxLeaves}

InitMerkle == \E d \in MerkleDirectories : InitMain(d, {"release"})

SpecMerkle == InitMerkle /\ [][NextBlock]_vars

---------------------------------------------------------------------------
(* SpecSort: main up to cut_size on records of which two have the same      *)
(* packet feerate (448), the others 4 and 15.                                *)

SortPool == {Leaf(1), Leaf(2), Low, Heavier}

SortDirectories ==
    {d \in SeqsUpTo(SortPool, MaxRecords) :
        \A i, j \in DOMAIN d : i # j => d[i] # d[j]}

InitSort == \E d \in SortDirectories : InitMain(d, {"release"})

SpecSort == InitSort /\ [][NextMine]_vars

---------------------------------------------------------------------------
(* SpecParents: main up to cut_size on a chain (Low, Mid), a record         *)
(* spending both of them and a record spending Low with two inputs.         *)

\* two inputs that spend outputs of Low
Twice ==
    Filed(<<PayingIn(TxidHex(Low), 100000), PayingIn(TxidHex(Low), 200000)>>,
          <<TxOut(U64(0), 25)>>)

ParentsPool == {Low, Mid, Both, Twice}

ParentsDirectories ==
    {d \in SeqsUpTo(ParentsPool, MaxRecords) :
        \A i, j \in DOMAIN d : i # j => d[i] # d[j]}

InitParents == \E d \in ParentsDirectories : InitMain(d, {"release"})

SpecParents == InitParents /\ [][NextMine]_vars

---------------------------------------------------------------------------
(* Claims on the value check *)

Wide(v) == Widen(v)
WideAdd(a, b) == SubSeq(AddCarry(a, b), 1, Len(a))

\* C7: any record whose sum of input prevout values, as a mathematical
\* integer, exceeds 20,999,999 * 10^8 is judged Invalid by validate, also
\* when the 64-bit running sum overflows.
C7_OverLimitInvalid ==
    \A i \in DOMAIN parsed_transactions :
        (/\ judged[i] # NoResult
         /\ Lt(Wide(MaxMoney), TrueSum(InputValues(parsed_transactions[i]))))
        => judged[i].kind = "Invalid"

\* C8: whenever validate_values_and_set_fee returns true, meta.fee plus the
\* true sum of the output values equals the true sum of the input values.
C8_FeeIsDifference ==
    \A i \in DOMAIN parsed_transactions :
        values_ret[i] = "true"
        => WideAdd(Wide(parsed_transactions[i].meta.fee),
                   TrueSum(OutputValues(parsed_transactions[i])))
             = TrueSum(InputValues(parsed_transactions[i]))


---------------------------------------------------------------------------
(* Claims on signature verification *)

SignedTypes == {<<"P2PKH">>, <<"P2WPKH">>}

ButLast(b) == SubSeq(b, 1, Len(b) - 1)

\* the signature (without its sighash byte) and the public key an input of
\* the loader's templates presents
Presented(txin) ==
    IF txin.in_type = <<"P2WPKH">>
    THEN [sig |-> ButLast(txin.witness.v[1]), pk |-> txin.witness.v[2]]
    ELSE LET n == txin.scriptsig[1]
         IN  [sig |-> ButLast(SubSeq(txin.scriptsig, 2, n + 1)),
              pk |-> SubSeq(txin.scriptsig, n + 3, Len(txin.scriptsig))]

Faulty(txin) ==
    /\ txin.in_type \in SignedTypes
    /\ txin.in_type = <<"P2WPKH">> => txin.witness.some
    /\ LET p == Presented(txin)
       IN  \/ ~ from_der_ok(p.sig)
           \/ ~ from_slice_ok(p.pk)
           \/ ~ verify_ok(p.sig, p.pk)

\* C9: a record that passes the sanity checks and has an input classified
\* P2TR, P2SH, P2WSH or UNKNOWN is judged Invalid by validate (so validate
\* returns Valid only for records whose inputs are all P2PKH or P2WPKH)
C9_OtherTypesInvalid ==
    \A i \in DOMAIN parsed_transactions :
        (/\ judged[i] # NoResult
         /\ values_ret[i] # "panic"
         /\ \E n \in DOMAIN parsed_transactions[i].vin :
                parsed_transactions[i].vin[n].in_type \notin SignedTypes)
        => judged[i].kind = "Invalid"

\* C10: a record with a P2WPKH or P2PKH input whose signature fails DER
\* parsing, whose public key fails to parse or whose signature fails
\* verification is judged Invalid by validate: the run is not aborted and
\* the record is not accepted
C10_FaultyInputInvalid ==
    \A i \in DOMAIN parsed_transactions :
        (/\ judged[i] # NoResult
         /\ values_ret[i] # "panic"
         /\ \E n \in DOMAIN parsed_transactions[i].vin :
                Faulty(parsed_transactions[i].vin[n]))
        => judged[i].kind = "Invalid"

---------------------------------------------------------------------------
(* Claims on the removal of invalid records *)

Key(i) == parsed_transactions[i].meta.txid_hex

\* the txid of record i, whether validate has set it or not
Id(i) == TxidHex(parsed_transactions[i])

Returned == pc = "mine"

Remains(i) ==
    /\ Key(i) \in DOMAIN transactions
    /\ transactions[Key(i)] = parsed_transactions[i]

Spends(c, j) ==
    \E n \in DOMAIN parsed_transactions[c].vin :
        parsed_transactions[c].vin[n].txid = Id(j)

RECURSIVE Ancestors(_, _)
Ancestors(i, depth) ==
    IF depth = 0 THEN {}
    ELSE LET parents == {j \in DOMAIN parsed_transactions : Spends(i, j)}
         IN  parents \cup UNION {Ancestors(j, depth - 1) : j \in parents}

JudgedInvalidKeys ==
    {Key(j) : j \in {k \in DOMAIN parsed_transactions : judged[k].kind = "Invalid"}}

\* C3: every record of the working set handed to mine_block was judged
\* Valid by validate
C3_OnlyValidSurvive ==
    Returned =>
        \A k \in DOMAIN transactions :
            \E i \in DOMAIN parsed_transactions :
                /\ parsed_transactions[i] = transactions[k]
                /\ judged[i].kind = "Valid"

C3_Witness ==
    /\ Returned
    /\ transactions # << >>
    /\ \E i \in DOMAIN parsed_transactions : judged[i].kind = "Invalid"

\* C4: when remove_invalid_transactions has returned, no remaining
\* transaction has an input naming the txid of a record that failed
\* validation or that was removed
C4_NoInvalidParent ==
    Returned =>
        \A k \in DOMAIN transactions :
            \A n \in DOMAIN transactions[k].vin :
                \A j \in DOMAIN parsed_transactions :
                    Id(j) = transactions[k].vin[n].txid
                    => judged[j].kind = "Valid" /\ Remains(j)

\* C6: every record judged Valid without an ancestor judged Invalid is in
\* the working set remove_invalid_transactions returns
C6_OnlyDescendantsAffected ==
    Returned =>
        \A i \in DOMAIN parsed_transactions :
            (/\ judged[i].kind = "Valid"
             /\ \A j \in Ancestors(i, Len(parsed_transactions)) :
                    judged[j].kind # "Invalid")
            => Remains(i)


\* the txids and the meta.txid_hex of the loaded records
LoadedIds ==
    {Id(j) : j \in DOMAIN parsed_transactions}
      \cup {Key(j) : j \in DOMAIN parsed_transactions}

\* every input of record i spends a transaction that was not loaded
OnlyUnloaded(i) ==
    \A n \in DOMAIN parsed_transactions[i].vin :
        parsed_transactions[i].vin[n].txid \notin LoadedIds

\* every input of record c spends a transaction that was not loaded or a
\* record spending only such transactions whose txid_hex no judgement
\* made invalid
OnUnloadedOnly(c) ==
    \A n \in DOMAIN parsed_transactions[c].vin :
        \/ parsed_transactions[c].vin[n].txid \notin LoadedIds
        \/ \E r \in DOMAIN parsed_transactions :
              /\ OnlyUnloaded(r)
              /\ Key(r) \notin JudgedInvalidKeys
              /\ parsed_transactions[c].vin[n].txid = Key(r)

\* C5 as the specification states it: a transaction with an input naming a
\* txid that no loaded record has is removed, and so is every transaction
\* spending it
C5_UnloadedParentRemoved ==
    Returned =>
        \A i \in DOMAIN parsed_transactions :
            (\E n \in DOMAIN parsed_transactions[i].vin :
                 parsed_transactions[i].vin[n].txid \notin LoadedIds)
            => /\ ~ Remains(i)
               /\ \A c \in DOMAIN parsed_transactions :
                      Spends(c, i) => ~ Remains(c)

\* C5 amended: a transaction whose inputs all name txids that no loaded
\* record has, or spend such transactions left in place, leaves the working
\* set exactly when its own txid_hex is that of a record judged Invalid
C5_UnloadedParentKept ==
    Returned =>
        \A c \in DOMAIN parsed_transactions :
            OnUnloadedOnly(c)
            => (Key(c) \in DOMAIN transactions <=> Key(c) \notin JudgedInvalidKeys)

C5_Witness ==
    /\ Returned
    /\ \E i, c \in DOMAIN parsed_transactions :
          /\ OnlyUnloaded(i) /\ Remains(i)
          /\ Spends(c, i) /\ Remains(c)
    /\ \E i \in DOMAIN parsed_transactions :
          OnlyUnloaded(i) /\ judged[i].kind = "Invalid" /\ ~ Remains(i)


---------------------------------------------------------------------------
(* Claims on the block *)

Mined == pc = "coinbase"

Feerate(t) == t.meta.packet_data.packet_feerate_weight

RECURSIVE SumWeights(_)
SumWeights(txs) ==
    IF txs = << >> THEN 0 ELSE Head(txs).meta.weight + SumWeights(Tail(txs))

\* C1: in the block cut_size returns from the sorted list, every txid in the
\* parents of a transaction is that of a transaction at a lower index
C1_ParentsFirst ==
    Mined =>
        \A t \in DOMAIN block_ordered :
            block_ordered[t].meta.parents.some =>
                \A k \in DOMAIN block_ordered[t].meta.parents.v :
                    \E p \in 1..(t - 1) :
                        block_ordered[p].meta.txid_hex
                          = block_ordered[t].meta.parents.v[k]

\* a block holding a child that the sort by feerate had put before a parent
C1_Witness ==
    /\ Mined
    /\ \E t, p \in DOMAIN block_ordered :
          /\ block_ordered[t].meta.parents.some
          /\ \E k \in DOMAIN block_ordered[t].meta.parents.v :
                block_ordered[t].meta.parents.v[k] = block_ordered[p].meta.txid_hex
          /\ Lt(Feerate(block_ordered[p]), Feerate(block_ordered[t]))

\* C2: the weights of the transactions cut_size returns sum to at most
\* 3,970,000
C2_BlockBudget ==
    Mined => SumWeights(block_ordered) <= 3970000

\* a block that left sorted transactions out
C2_Witness ==
    /\ Mined
    /\ block_ordered # << >>
    /\ Len(block_ordered) < Len(sorted_transactions)
    /\ SumWeights(sorted_transactions) > 3970000


---------------------------------------------------------------------------
(* Claims on sighash bytes and on the end of a script *)

\* the sighash byte of the signature an input of the loader's templates
\* presents
SighashByte(txin) ==
    IF txin.in_type = <<"P2WPKH">>
    THEN txin.witness.v[1][Len(txin.witness.v[1])]
    ELSE txin.scriptsig[txin.scriptsig[1] + 1]

\* C11: a record with a P2PKH or P2WPKH input whose signature ends in a
\* sighash byte other than 0x01 is never judged Valid, whatever the rest of
\* the signature verifies against
C11_OnlySighashAll ==
    \A i \in DOMAIN parsed_transactions :
        (\E n \in DOMAIN parsed_transactions[i].vin :
            LET txin == parsed_transactions[i].vin[n]
            IN  /\ txin.in_type \in SignedTypes
                /\ txin.in_type = <<"P2WPKH">> => txin.witness.some
                /\ SighashByte(txin) # 1)
        => judged[i].kind # "Valid"

\* the stack evaluate_script ends with for a P2PKH input
FinalStack(tx, txin) ==
    evaluate_script(txin.scriptsig \o txin.prevout.scriptpubkey, txin, tx).stack

\* C12: a record is judged Valid only if the script of each of its P2PKH
\* inputs ends with a stack that is not empty and whose top is not empty
C12_TrueOnTop ==
    \A i \in DOMAIN parsed_transactions :
        judged[i].kind = "Valid" =>
            \A n \in DOMAIN parsed_transactions[i].vin :
                LET txin == parsed_transactions[i].vin[n]
                IN  txin.in_type = <<"P2PKH">> =>
                        /\ FinalStack(parsed_transactions[i], txin) # << >>
                        /\ Top(FinalStack(parsed_transactions[i], txin)) # << >>


---------------------------------------------------------------------------
(* Claims on the output file *)

Written == pc = "done"

Texts(file) == [i \in DOMAIN file |-> file[i].text]

BlockTxids == [i \in DOMAIN block_ordered |-> block_ordered[i].meta.txid_hex]

\* every write but the last one ends its line
NoNewlineAfterLast(file) ==
    \A i \in DOMAIN file : file[i].newline = (i < Len(file))

\* C13 (as stated): the output file is the header hex, the coinbase
\* transaction hex, then one line per transaction cut_size kept, in block
\* order and nothing else (so nothing after the coinbase transaction for an
\* empty block), and no newline after the last line.
C13_BlockTxidsOnly ==
    Written =>
        /\ Texts(output_file) =
              <<hex_encode(block_header), hex_encode(coinbase_tx.assembled_tx)>>
                  \o BlockTxids
        /\ NoNewlineAfterLast(output_file)

\* C13 (amended): the output file is the header hex, the coinbase
\* transaction hex, the txid of the coinbase transaction, then one line per
\* transaction cut_size kept, in block order, and no newline after the last
\* line; for an empty block the coinbase txid is the last line.
C13_CoinbaseTxidThenBlockTxids ==
    Written =>
        /\ Texts(output_file) =
              <<hex_encode(block_header), hex_encode(coinbase_tx.assembled_tx),
                coinbase_tx.txid_hex>> \o BlockTxids
        /\ NoNewlineAfterLast(output_file)

C13_Witness ==
    /\ Written
    /\ block_ordered # << >>
    /\ Len(block_ordered) < Len(sorted_transactions)
    /\ Len(output_file) = Len(block_ordered) + 3

---------------------------------------------------------------------------
(* Claims on the coinbase transaction and the header *)

Assembled == coinbase_tx # NoCoinbase

\* what a double_hash of the model was taken of
Hashed(digest) == SubSeq(digest, 3, Len(digest))

\* the 8 bytes after the first `offset` bytes
Amount(bytes, offset) == SubSeq(bytes, offset + 1, offset + 8)

BlockFees == [i \in DOMAIN block_ordered |-> block_ordered[i].meta.fee]

\* the first output's value follows version (4), marker and flag (2, witness
\* form only), the input (37), the scriptsig with its length (24), the
\* sequence (4) and the output count (1)
WitnessRewardOffset == 72
LegacyRewardOffset == 70

HeaderMined == pc \in {"return_block", "output", "done"}

\* the merkle root field of the mined header: after version (4) and previous
\* block (32), before time, bits and nonce (4 each)
HeaderRoot == SubSeq(block_header, 37, Len(block_header) - 12)

RECURSIVE Height(_)
Height(n) == IF n <= 1 THEN 0 ELSE 1 + Height((n + 1) \div 2)

\* The reference merkle root, from the top: the root of a tree of height h is
\* the double hash of the roots of its two halves of height h - 1, and a half
\* that has no leaves repeats the other half.
RECURSIVE MerkleTree(_, _)
MerkleTree(hashes, h) ==
    IF h = 0 THEN hashes[1]
    ELSE LET half == 2 ^ (h - 1)
             left == SubSeq(hashes, 1, IF Len(hashes) < half
                                       THEN Len(hashes) ELSE half)
             right == IF Len(hashes) > half
                      THEN SubSeq(hashes, half + 1, Len(hashes))
                      ELSE left
         IN  double_hash(MerkleTree(left, h - 1) \o MerkleTree(right, h - 1))

MerkleFold(hashes) == MerkleTree(hashes, Height(Len(hashes)))

\* C15: the merkle root of the header is the reference merkle fold (a single
\* hash unchanged; else on every level an odd count repeats the last hash
\* and each pair is concatenated and double-hashed) of the coinbase txid in
\* natural byte order followed by the reversed txids of the block, in block
\* order.
C15_HeaderRootIsMerkleFold ==
    HeaderMined =>
        HeaderRoot =
            MerkleFold(<<Reverse(hex_decode(coinbase_tx.txid_hex))>> \o
                       [i \in DOMAIN block_ordered |->
                           Reverse(hex_decode(block_ordered[i].meta.txid_hex))])

\* five leaves: an odd count on the first and on the second level
C15_Witness == HeaderMined /\ Len(block_ordered) = 4

\* the target 0x00000ffff0...0 as a number (least significant byte first)
Target == Zeros(27) \o <<240, 255, 15, 0, 0>>

\* the digest, read as a little-endian integer, is strictly below the target
Qualifies(digest) == Lt(digest, Target)

\* the nonce a candidate ends with
NonceOf(cand) ==
    LET n == Len(cand)
    IN  cand[n - 3] + 256 * cand[n - 2] + 65536 * cand[n - 1]
            + 16777216 * cand[n]

LastTry == block_hashes[Len(block_hashes)]

\* C16: mine_nonce hashes the header with the nonces 0, 1, 2, ... in this
\* order and goes on only after a digest that is not below the target; the
\* header that is returned ends with the first nonce whose digest, read as a
\* little-endian integer, is strictly below the target; when the last nonce
\* (max_nonce) fails too, the build is aborted and no block is returned.
C16_SmallestQualifyingNonce ==
    /\ \A k \in DOMAIN block_hashes :
          /\ NonceOf(block_hashes[k].candidate) = k - 1
          /\ k < Len(block_hashes) => ~ Qualifies(block_hashes[k].block_hash)
    /\ HeaderMined =>
          /\ Qualifies(LastTry.block_hash)
          /\ block_header = LastTry.candidate
    /\ (block_hashes # << >> /\ ~ Qualifies(LastTry.block_hash)) =>
          IF Len(block_hashes) = max_nonce + 1
          THEN pc = "aborted" /\ block = NoBlock /\ output_file = << >>
          ELSE pc = "mine_nonce"

\* the digest of nonce 0 was the target itself, a later nonce was returned
C16_Witness ==
    /\ HeaderMined
    /\ Len(block_hashes) >= 2
    /\ block_hashes[1].block_hash = Target

---------------------------------------------------------------------------
(* Claims on the txid check *)

\* validate_txid_hash_filename has run on the record
TxidSet(t) == t.meta.txid_hex # << >>

CarriesWitness(t) == \E k \in DOMAIN t.vin : t.vin[k].witness # None

\* C17: once validate_txid_hash_filename has run on a record, its
\* meta.wtxid_hex equals its meta.txid_hex if and only if none of its inputs
\* carries a witness field.
C17_WtxidIsTxidIffNoWitness ==
    \A i \in DOMAIN parsed_transactions :
        TxidSet(parsed_transactions[i]) =>
            ((parsed_transactions[i].meta.wtxid_hex
                  = parsed_transactions[i].meta.txid_hex)
               <=> ~ CarriesWitness(parsed_transactions[i]))

\* a record whose second input only carries a witness
C17_Witness ==
    \E i \in DOMAIN parsed_transactions :
        /\ TxidSet(parsed_transactions[i])
        /\ Len(parsed_transactions[i].vin) = 2
        /\ parsed_transactions[i].vin[1].witness = None
        /\ parsed_transactions[i].vin[2].witness # None
        /\ parsed_transactions[i].meta.wtxid_hex
              # parsed_transactions[i].meta.txid_hex

---------------------------------------------------------------------------
(* Claims on put_parents_in_front *)

\* the (child, parent) edges of a list, as pairs of txids
Edges(txs) ==
    UNION {{<<txs[c].meta.txid_hex, txs[c].meta.parents.v[k]>> :
                k \in DOMAIN txs[c].meta.parents.v} :
           c \in {i \in DOMAIN txs : txs[i].meta.parents.some}}

IsMember(txs, txid) == \E i \in DOMAIN txs : txs[i].meta.txid_hex = txid

Position(txs, txid) == CHOOSE i \in DOMAIN txs : txs[i].meta.txid_hex = txid

ParentsAreMembers(txs) == \A e \in Edges(txs) : IsMember(txs, e[2])

NoParentBehind(txs) ==
    \A e \in Edges(txs) : Position(txs, e[2]) < Position(txs, e[1])

\* C18: put_parents_in_front terminates on a list whose parents are all
\* members of the list (a txid is a hash over the txids of the parents, so
\* the parents relation of a list is acyclic), and when it has terminated no
\* transaction has a parent at a larger index.
C18_ParentsInFrontTerminates ==
    /\ (pc = "parents_in_front" /\ ParentsAreMembers(sorted_transactions))
          ~> (pc = "cut_size")
    /\ [](pc = "cut_size" => NoParentBehind(sorted_transactions))

\* the loop starts on a chain of three in the reverse order
C18_Witness ==
    /\ pc = "parents_in_front"
    /\ ParentsAreMembers(sorted_transactions)
    /\ Len(sorted_transactions) = 3
    /\ \A e \in Edges(sorted_transactions) :
          Position(sorted_transactions, e[2]) > Position(sorted_transactions, e[1])
    /\ Cardinality(Edges(sorted_transactions)) >= 2

Max0(n) == IF n > 0 THEN n ELSE 0

Term(txs, e) == Max0(Position(txs, e[2]) - Position(txs, e[1]))

RECURSIVE SumTerms(_, _)
SumTerms(txs, edges) ==
    IF edges = {} THEN 0
    ELSE LET e == CHOOSE x \in edges : TRUE
         IN  Term(txs, e) + SumTerms(txs, edges \ {e})

\* the sum over all edges of max(index(parent) - index(child), 0)
Disorder(txs) == SumTerms(txs, Edges(txs))

\* the step is a lift: a pass of the loop that moved a parent
IsLift == pc = "parents_in_front" /\ sorted_transactions' # sorted_transactions

\* the edge the next pass lifts
NextLift == first_lift(sorted_transactions, 0, 1)
LiftedChild == sorted_transactions[NextLift.tx_index + 1]
LiftedParent == sorted_transactions[NextLift.parent_index + 1]
LiftedEdge == <<LiftedChild.meta.txid_hex, LiftedParent.meta.txid_hex>>

\* no parent of the lifted parent is at or behind the child's index
LiftedParentIsFree ==
    LiftedParent.meta.parents.some =>
        \A k \in DOMAIN LiftedParent.meta.parents.v :
            Position(sorted_transactions, LiftedParent.meta.parents.v[k])
                < NextLift.tx_index + 1

\* C19 (as stated): every lift of put_parents_in_front strictly decreases the
\* sum over all (child, parent) edges of max(index(parent) - index(child), 0).
C19_EveryLiftDecreases ==
    [][IsLift => Disorder(sorted_transactions') < Disorder(sorted_transactions)]_vars

\* C19 (amended): every lift brings the term of the lifted edge to zero, and
\* it strictly decreases the sum over all edges when no parent of the lifted
\* parent is at or behind the child's index.
C19_FreeLiftDecreases ==
    [][IsLift =>
          /\ Term(sorted_transactions', LiftedEdge) = 0
          /\ LiftedParentIsFree =>
                Disorder(sorted_transactions') < Disorder(sorted_transactions)]_vars

\* a lift is due in a list with two edges out of order, and its parent is free
C19_Witness ==
    /\ pc = "parents_in_front"
    /\ NextLift.found
    /\ LiftedParentIsFree
    /\ Disorder(sorted_transactions) >= 2

---------------------------------------------------------------------------
(* Claims on the loop of remove_invalid_transactions *)

\* the step is one pass of the while loop
IsPass == pc = "sweep" /\ ~ nothing_removed /\ pc' = "sweep"

\* C20: remove_invalid_transactions terminates; a pass after which the loop
\* goes on has removed at least one record of the working set (and no pass
\* adds one), and the loop stops exactly after the first pass that removed
\* none.
C20_SweepTerminates ==
    /\ (pc = "sweep") ~> (pc = "mine")
    /\ [][IsPass =>
            /\ DOMAIN transactions' \subseteq DOMAIN transactions
            /\ nothing_removed' <=> (DOMAIN transactions' = DOMAIN transactions)
            /\ ~ nothing_removed' =>
                  Cardinality(DOMAIN transactions')
                      < Cardinality(DOMAIN transactions)]_vars
    /\ [][pc = "sweep" => pc' = (IF nothing_removed THEN "mine" ELSE "sweep")]_vars

\* a second pass is due on a working set that has lost a record and still
\* holds records
C20_Witness ==
    /\ pc = "sweep" /\ ~ nothing_removed
    /\ DOMAIN transactions # {}
    /\ Cardinality(DOMAIN transactions) < Len(parsed_transactions)
    /\ invalid_transactions # {}

---------------------------------------------------------------------------
(* Claims on cut_size and the sort *)

\* the budget left before the record at index i of the sorted list
Remaining(i) == 3970000 - SumWeights(SubSeq(sorted_transactions, 1, i - 1))

\* C21: what cut_size returns is a prefix of the sorted list; every record
\* of it weighs strictly less than the budget left before it (3,970,000 at
\* the start), and the first record left out weighs at least the budget left
\* before it; every record after that one is left out too.
C21_CutIsFittingPrefix ==
    Mined =>
        LET n == Len(block_ordered)
        IN  /\ n <= Len(sorted_transactions)
            /\ block_ordered = SubSeq(sorted_transactions, 1, n)
            /\ \A i \in 1..n : sorted_transactions[i].meta.weight < Remaining(i)
            /\ n < Len(sorted_transactions) =>
                  sorted_transactions[n + 1].meta.weight >= Remaining(n + 1)

\* the first record weighs exactly the budget and is left out, and so is a
\* later record that would fit
C21_Witness ==
    /\ Mined
    /\ block_ordered = << >>
    /\ Len(sorted_transactions) >= 2
    /\ sorted_transactions[1].meta.weight = 3970000
    /\ sorted_transactions[2].meta.weight < 3970000

\* the step is the sort_by of sort_transactions
IsSort == pc = "sort_by" /\ pc' = "parents_in_front"

Txids(txs) == {txs[i].meta.txid_hex : i \in DOMAIN txs}

\* C22: the sort_by of sort_transactions leaves the records of the working
\* set, as the iteration of the map gave them, in an order of non-increasing
\* packet_feerate_weight, and two records of the same packet feerate keep the
\* order the iteration gave them.
C22_SortIsStableDescending ==
    [][IsSort =>
          /\ Len(sorted_transactions') = Len(sorted_transactions)
          /\ Txids(sorted_transactions') = Txids(sorted_transactions)
          /\ \A i, j \in DOMAIN sorted_transactions' :
                i < j => ~ Lt(Feerate(sorted_transactions'[i]),
                              Feerate(sorted_transactions'[j]))
          /\ \A i, j \in DOMAIN sorted_transactions :
                (i < j /\ Feerate(sorted_transactions[i])
                              = Feerate(sorted_transactions[j]))
                   => Position(sorted_transactions',
                               sorted_transactions[i].meta.txid_hex)
                        < Position(sorted_transactions',
                                   sorted_transactions[j].meta.txid_hex)]_vars

\* the map was iterated with a record of lower feerate before two records of
\* the same feerate
C22_Witness ==
    /\ pc = "sort_by"
    /\ Len(sorted_transactions) = 3
    /\ Lt(Feerate(sorted_transactions[1]), Feerate(sorted_transactions[2]))
    /\ Feerate(sorted_transactions[2]) = Feerate(sorted_transactions[3])

---------------------------------------------------------------------------
(* Claims on the parents and the packet data *)

\* assign_mempool_parents has run, calculate_packet_weights has not
Linked == pc = "packet_weights"

\* the previous txids of the inputs of a record that are keys of the map
SpentKeys(t) == {t.vin[i].txid : i \in DOMAIN t.vin} \cap DOMAIN transactions

\* C23: after assign_mempool_parents the parents of a record are unset when
\* none of its inputs spends a key of the working set, and otherwise list
\* exactly the keys its inputs spend, each of them once.
C23_ParentsAreSpentKeysOnce ==
    Linked =>
        \A txid \in DOMAIN transactions :
            LET t == transactions[txid]
            IN  IF SpentKeys(t) = {} THEN t.meta.parents = None
                ELSE /\ t.meta.parents.some
                     /\ Range(t.meta.parents.v) = SpentKeys(t)
                     /\ Len(t.meta.parents.v) = Cardinality(SpentKeys(t))

\* calculate_packet_weights has run
Packed == pc = "sort"

\* the parent edges of the working set: the txids a record's parents name
ParentSet(txid) ==
    IF transactions[txid].meta.parents.some
    THEN Range(transactions[txid].meta.parents.v)
    ELSE {}

\* the number of distinct paths of parent edges from one record to another
RECURSIVE PathCount(_, _)
RECURSIVE PathsVia(_, _)
PathsVia(parents, to) ==
    IF parents = {} THEN 0
    ELSE LET p == CHOOSE x \in parents : TRUE
         IN  PathCount(p, to) + PathsVia(parents \ {p}, to)

PathCount(from, to) ==
    IF from = to THEN 1 ELSE PathsVia(ParentSet(from), to)

\* fee (on 10 bytes) and weight of the records of a set, each counted once
\* per path from txid to it
RECURSIVE PacketSum(_, _)
PacketSum(txid, records) ==
    IF records = {} THEN [fee |-> Zeros(10), weight |-> 0]
    ELSE LET a == CHOOSE x \in records : TRUE
             rest == PacketSum(txid, records \ {a})
             n == PathCount(txid, a)
         IN  [fee |-> SubSeq(AddCarry(MulSmall(Widen(transactions[a].meta.fee), n),
                                      rest.fee), 1, 10),
              weight |-> n * transactions[a].meta.weight + rest.weight]

\* q is the integer quotient of fee by weight
IsQuotient(q, fee, weight) ==
    /\ ~ Lt(Widen(fee), MulSmall(Widen(q), weight))
    /\ Lt(Widen(fee),
          SubSeq(AddCarry(MulSmall(Widen(q), weight), Widen(U64(weight))), 1, 10))

\* C24: after calculate_packet_weights the packet fee and the packet weight
\* of every record are the sums of fee and weight over the record and its
\* ancestors, an ancestor counted once per distinct path of parent edges to
\* it, and the packet feerate is the integer quotient of the two; a record
\* without parents has its own fee and weight.
C24_PacketCountsPaths ==
    Packed =>
        \A txid \in DOMAIN transactions :
            LET t == transactions[txid]
                packet == t.meta.packet_data
                expected == PacketSum(txid, DOMAIN transactions)
            IN  /\ Widen(packet.packet_fee_sat) = expected.fee
                /\ packet.packet_weight = expected.weight
                /\ IsQuotient(packet.packet_feerate_weight,
                              packet.packet_fee_sat, packet.packet_weight)
                /\ ~ t.meta.parents.some =>
                      /\ packet.packet_fee_sat = t.meta.fee
                      /\ packet.packet_weight = t.meta.weight

---------------------------------------------------------------------------
(* Claims on the stack operators *)

\* the stack the scriptsig of an input leaves for its scriptpubkey
\* (run with an OP_PUSHNUM_1 behind it, taken off again, so that the check at
\* the end of a script does not bear on it)
PushedStack(tx, txin) ==
    Pop(evaluate_script(txin.scriptsig \o <<81>>, txin, tx).stack, 1)

\* what the one opcode of the scriptpubkey returns on that stack
LastStep(tx, txin) ==
    step(txin.prevout.scriptpubkey[1], txin.scriptsig \o txin.prevout.scriptpubkey,
         Len(txin.scriptsig), PushedStack(tx, txin), txin, tx)

\* C25: OP_ROT on a stack whose three topmost elements are x1 x2 x3 (x3 on
\* top) leaves them as x2 x3 x1 and every deeper element as it was; with
\* fewer than three elements it fails.  Stated of every judged input whose
\* scriptpubkey is OP_ROT alone: the stack at the end of the run is the stack
\* the scriptsig left with its third-from-top element moved to the top, and
\* the record is judged Invalid when the scriptsig left fewer than three
\* elements.
C25_RotMovesThirdToTop ==
    \A i \in DOMAIN parsed_transactions :
        judged[i] # NoResult =>
            \A n \in DOMAIN parsed_transactions[i].vin :
                LET txin == parsed_transactions[i].vin[n]
                    before == PushedStack(parsed_transactions[i], txin)
                    d == Len(before)
                IN  (txin.in_type = <<"P2PKH">> /\ txin.prevout.scriptpubkey = <<123>>)
                    => IF d < 3 THEN judged[i].kind = "Invalid"
                       ELSE FinalStack(parsed_transactions[i], txin)
                              = Pop(before, 3)
                                  \o <<before[d - 1], before[d], before[d - 2]>>

\* C26: OP_CHECKLOCKTIMEVERIFY and OP_CHECKSEQUENCEVERIFY only inspect the top
\* stack element: whenever either opcode succeeds, the stack after it is the
\* stack before it.  Stated of every judged input whose scriptpubkey is one
\* of the two opcodes alone.
C26_LockChecksKeepStack ==
    \A i \in DOMAIN parsed_transactions :
        judged[i] # NoResult =>
            \A n \in DOMAIN parsed_transactions[i].vin :
                LET tx == parsed_transactions[i]
                    txin == tx.vin[n]
                IN  (/\ txin.in_type = <<"P2PKH">>
                     /\ txin.prevout.scriptpubkey \in {<<177>>, <<178>>}
                     /\ LastStep(tx, txin).kind = "Ok")
                    => LastStep(tx, txin).stack = PushedStack(tx, txin)

\* the i128 of a small integer
I128(n) ==
    IF n >= 0 THEN to_le_bytes(n, 16) ELSE <<256 + n>> \o [k \in 1..15 |-> 255]

\* a byte string of at most one byte read as a magnitude with a sign bit
SignMagnitude(number) ==
    IF number = << >> THEN 0
    ELSE IF number[1] >= 128 THEN 0 - (number[1] - 128)
    ELSE number[1]

\* C27: decode_num reads a byte vector as a little-endian magnitude whose
\* sign is the most significant bit of the last byte: the empty vector
\* decodes to 0, [0x80] to 0, [0x81] to -1 and [0x7F] to 127.  Stated of the
\* number OP_CLTV or OP_CSV decoded for every judged input whose scriptpubkey
\* is one of the two alone, where the number is at most one byte long.
C27_DecodeNumSignMagnitude ==
    \A i \in DOMAIN parsed_transactions :
        judged[i] # NoResult =>
            \A n \in DOMAIN parsed_transactions[i].vin :
                LET tx == parsed_transactions[i]
                    txin == tx.vin[n]
                    stack == PushedStack(tx, txin)
                IN  (/\ txin.in_type = <<"P2PKH">>
                     /\ txin.prevout.scriptpubkey \in {<<177>>, <<178>>}
                     /\ stack # << >>
                     /\ Len(Top(stack)) <= 1)
                    => decode_num(Top(stack))
                         = [panic |-> FALSE, value |-> I128(SignMagnitude(Top(stack)))]

---------------------------------------------------------------------------
(* Claims on opcodes without an arm in evaluate_script *)

\* the opcodes evaluate_script has an arm for
Supported(opcode) ==
    opcode \in {168, 169, 117, 124, 0, 118, 135, 123, 130, 120, 160, 136, 115,
                178, 177, 172, 116, 173, 79, 76, 77, 78, 174}
                  \cup (81..96) \cup (1..75)

\* the run of the scripts of txin comes to an opcode outside the table: the
\* opcodes in front of it push no data and run through without an error
ReachesUnsupported(tx, txin) ==
    LET script == txin.scriptsig \o txin.prevout.scriptpubkey
    IN  \E k \in DOMAIN script :
            /\ ~ Supported(script[k])
            /\ \A j \in 1..(k - 1) : Supported(script[j]) /\ script[j] \notin 1..78
            /\ evaluate_script(SubSeq(script, 1, k - 1) \o <<81>>, txin, tx).kind = "Ok"

\* C28: when evaluate_script reaches an opcode outside the supported table,
\* the whole run aborts with a diagnostic and no block is produced; the
\* outcome is not an Invalid result confined to that one transaction.
\* Stated of every judged record that passes the checks made before
\* signature verification and has one input, typed P2PKH.
C28_UnsupportedOpcodeAborts ==
    \A i \in DOMAIN parsed_transactions :
        LET tx == parsed_transactions[i]
        IN  (/\ judged[i] # NoResult
             /\ tx.vin[1].in_type = <<"P2PKH">>
             /\ ReachesUnsupported(tx, tx.vin[1]))
            => /\ judged[i] = Panic("no script operator found!")
               /\ tx.meta.txid_hex \notin invalid_transactions
               /\ pc = "aborted"
               /\ block = NoBlock
               /\ output_file = << >>

\* a run aborted at its third record, the two before it judged Valid and the
\* third reaching an opcode outside the table behind an OP_DROP that ran
C28_Witness ==
    /\ pc = "aborted"
    /\ Len(parsed_transactions) = 3
    /\ judged[1].kind = "Valid" /\ judged[2].kind = "Valid"
    /\ judged[3].kind = "Panic"
    /\ parsed_transactions[3].vin[1].scriptsig = <<81, 117>>
    /\ ReachesUnsupported(parsed_transactions[3], parsed_transactions[3].vin[1])

---------------------------------------------------------------------------
(* Claims on the block and its parents *)

\* C29: the block is closed under parents: for every record returned by
\* cut_size applied to the output of sort_transactions, every txid in its
\* meta.parents is the txid of a returned record, so no record of the block
\* spends a record of the working set that was cut.
C29_BlockClosedUnderParents ==
    Mined =>
        \A i \in DOMAIN block_ordered :
            LET parents == block_ordered[i].meta.parents
            IN  parents.some =>
                    \A k \in DOMAIN parents.v : parents.v[k] \in Txids(block_ordered)

\* a parent was cut and its child with it, while a record is in the block
C29_Witness ==
    /\ Mined
    /\ block_ordered # << >>
    /\ \E i, j \in DOMAIN sorted_transactions :
          /\ i > Len(block_ordered) /\ j > Len(block_ordered)
          /\ sorted_transactions[j].meta.parents.some
          /\ sorted_transactions[i].meta.txid_hex
                \in Range(sorted_transactions[j].meta.parents.v)
          /\ sorted_transactions[j].meta.weight < BlockSpace - sorted_transactions[1].meta.weight

---------------------------------------------------------------------------
(* Claims on op_pushbytes *)

\* C30: for every script and every position of an OP_PUSHBYTES_N opcode
\* (0x01..0x4B), op_pushbytes either pushes exactly the N bytes that follow
\* the opcode and advances the index past them, or, when fewer than N bytes
\* follow, returns the error 'OP_PUSHBYTES opcode out of range'.  Stated of
\* the scripts of every judged P2PKH input.
C30_PushBytesOrError ==
    \A i \in DOMAIN parsed_transactions :
        judged[i] # NoResult =>
            \A n \in DOMAIN parsed_transactions[i].vin :
                LET txin == parsed_transactions[i].vin[n]
                    script == txin.scriptsig \o txin.prevout.scriptpubkey
                IN  txin.in_type = <<"P2PKH">> =>
                        \A index \in 0..(Len(script) - 1) :
                            LET N == script[index + 1]
                                following == Len(script) - (index + 1)
                            IN  N \in 1..75 =>
                                    op_pushbytes(<< >>, index, script)
                                      = IF following >= N
                                        THEN Ok(<<SubSeq(script, index + 2, index + 1 + N)>>,
                                                index + N)
                                        ELSE Err("OP_PUSHBYTES opcode out of range")
==========================================================================
